---- MODULE Spec2Model ----
(***************************************************************************)
(* Model of the rustpad server: the per-document engine (rustpad.rs), the  *)
(* connection loop that drives a websocket (rustpad.rs handle_connection,  *)
(* lib.rs websocket_connection) and the presence / user-update path.       *)
(*                                                                         *)
(* Strings are kept run-length encoded: a string is a sequence of runs     *)
(* [c |-> character, n |-> count] with n > 0 and no two neighbouring runs  *)
(* of the same character.  The encoding is one-to-one, so equality of      *)
(* encodings is equality of strings, and lengths are counts of Unicode     *)
(* code points as in the operational_transform crate (chars().count()).    *)
(***************************************************************************)
EXTENDS Integers, Sequences, FiniteSets, TLC

VARIABLES
    operations,  \* State.operations: Vec<UserOperation>
    text,        \* State.text
    meta,        \* State.meta: DocumentMeta {language, limited}
    users,       \* State.users: HashMap<u64, UserInfo>
    cursors,     \* State.cursors: HashMap<u64, CursorData>
    dirty,       \* State.dirty
    count,       \* Rustpad.count: AtomicU64
    killed,      \* Rustpad.killed: AtomicBool
    pc,          \* per connection: position of its task
    cuser,       \* per connection: the authenticated user (Option)
    rev,         \* per connection: local `revision` of handle_connection
    armed,       \* per connection: a Notified future exists
    woken,       \* per connection: that future was woken by notify_waiters
    sock,        \* per connection: messages sent on the websocket, in order
    rx,          \* per connection: broadcast receiver queue (update_rx)
    lagged,      \* per connection: the receiver overflowed (RecvError::Lagged)
    err,         \* per connection: the error its handler returned, "" if none
    inflight,    \* per connection: an Edit the client sent, not yet handled
    sessions,    \* UserSessions.sessions restricted to LoggedIn entries
    csession,    \* per connection: the session cookie it came with (Option)
    grx,         \* per connection: receiver queue of ServerState.update
    nmsgs,       \* number of client messages the server has received
    store,       \* Database: the text file and the meta file of the document
    resident,    \* ServerState.documents holds an entry for the document
    resp,        \* the last HTTP response of socket_handler / text_handler
    persister,   \* the persister task: its position and the snapshot it holds
    shutdown,    \* ServerState::persist at shutdown: position, snapshot, outcome
    fails,       \* number of store_document calls that returned Err
    lastStored,  \* the documents last handed to store_document: `ok` the last
                 \* that returned Ok, `tried` the last whatever it returned
    ident,       \* the strings given to Identifier::from_str, and its results
    lastSnapshot,\* the document dirty_snapshot last returned, or the one the
                 \* engine was constructed from if it has returned none
    auth,        \* UserSessions: sessions logging in, sessions past expires_at,
                 \* the guards held on the map, the calls of get_user
    outbox       \* per connection: the ServerMsg its handler built under the
                 \* State's lock and has not yet sent on `update`

vars == <<operations, text, meta, users, cursors, dirty, count, killed,
          pc, cuser, rev, armed, woken, sock, rx, lagged, err, inflight,
          sessions, csession, grx, nmsgs,
          store, resident, resp, persister, shutdown, fails, lastStored,
          ident, lastSnapshot, auth, outbox>>

\* the state of lib.rs around the engine: database, registry, persister
regVars == <<store, resident, resp, persister, shutdown, fails, lastStored,
            ident, lastSnapshot, auth, outbox>>

None == <<>>
Some(x) == <<x>>

Min(a, b) == IF a < b THEN a ELSE b

-----------------------------------------------------------------------------
(* Strings, run-length encoded *)

Rep(c, n) == IF n = 0 THEN <<>> ELSE <<[c |-> c, n |-> n]>>

RECURSIVE SLen(_)
SLen(s) == IF s = <<>> THEN 0 ELSE Head(s).n + SLen(Tail(s))

SCat(a, b) ==
    IF a = <<>> THEN b
    ELSE IF b = <<>> THEN a
    ELSE IF a[Len(a)].c = b[1].c
         THEN SubSeq(a, 1, Len(a) - 1)
              \o <<[c |-> b[1].c, n |-> a[Len(a)].n + b[1].n]>>
              \o Tail(b)
         ELSE a \o b

RECURSIVE STake(_, _)
STake(s, n) ==
    IF n = 0 \/ s = <<>> THEN <<>>
    ELSE IF Head(s).n <= n
         THEN <<Head(s)>> \o STake(Tail(s), n - Head(s).n)
         ELSE <<[c |-> Head(s).c, n |-> n]>>

RECURSIVE SDrop(_, _)
SDrop(s, n) ==
    IF n = 0 \/ s = <<>> THEN s
    ELSE IF Head(s).n <= n
         THEN SDrop(Tail(s), n - Head(s).n)
         ELSE <<[c |-> Head(s).c, n |-> Head(s).n - n]>> \o Tail(s)

-----------------------------------------------------------------------------
(* operational_transform::OperationSeq, as rustpad.rs uses it.              *)
(* An operation is Retain(n), Delete(n) or Insert(s); an OperationSeq keeps *)
(* its ops with base_len and target_len.                                    *)

Retain(n) == [k |-> "retain", n |-> n, s |-> <<>>]
Delete(n) == [k |-> "delete", n |-> n, s |-> <<>>]
Insert(s) == [k |-> "insert", n |-> 0, s |-> s]

EmptyOp == [ops |-> <<>>, base_len |-> 0, target_len |-> 0]

\* OperationSeq::retain
OpRetain(o, n) ==
    IF n = 0 THEN o
    ELSE LET l == Len(o.ops) IN
         [ops |-> IF l > 0 /\ o.ops[l].k = "retain"
                  THEN [o.ops EXCEPT ![l] = Retain(o.ops[l].n + n)]
                  ELSE Append(o.ops, Retain(n)),
          base_len |-> o.base_len + n,
          target_len |-> o.target_len + n]

\* OperationSeq::delete
OpDelete(o, n) ==
    IF n = 0 THEN o
    ELSE LET l == Len(o.ops) IN
         [ops |-> IF l > 0 /\ o.ops[l].k = "delete"
                  THEN [o.ops EXCEPT ![l] = Delete(o.ops[l].n + n)]
                  ELSE Append(o.ops, Delete(n)),
          base_len |-> o.base_len + n,
          target_len |-> o.target_len]

\* OperationSeq::insert: an insert is merged into a preceding insert and is
\* placed before a trailing delete.
OpInsert(o, s) ==
    IF s = <<>> THEN o
    ELSE LET l == Len(o.ops) IN
         [ops |-> IF l > 0 /\ o.ops[l].k = "insert"
                  THEN [o.ops EXCEPT ![l] = Insert(SCat(o.ops[l].s, s))]
                  ELSE IF l > 1 /\ o.ops[l].k = "delete" /\ o.ops[l - 1].k = "insert"
                  THEN [o.ops EXCEPT ![l - 1] = Insert(SCat(o.ops[l - 1].s, s))]
                  ELSE IF l > 0 /\ o.ops[l].k = "delete"
                  THEN Append([o.ops EXCEPT ![l] = Insert(s)], o.ops[l])
                  ELSE Append(o.ops, Insert(s)),
          base_len |-> o.base_len,
          target_len |-> o.target_len + SLen(s)]

\* OperationSeq::add
OpAdd(o, x) ==
    CASE x.k = "retain" -> OpRetain(o, x.n)
      [] x.k = "delete" -> OpDelete(o, x.n)
      [] x.k = "insert" -> OpInsert(o, x.s)

\* Deserialisation of an OperationSeq from its JSON array: every element is
\* added through OperationSeq::add.
RECURSIVE FromList(_, _)
FromList(o, xs) == IF xs = <<>> THEN o ELSE FromList(OpAdd(o, Head(xs)), Tail(xs))

OpSeq(xs) == FromList(EmptyOp, xs)

\* The loop of OperationSeq::transform over the remaining ops of both sides.
RECURSIVE TransformLoop(_, _, _, _)
TransformLoop(o1, o2, ap, bp) ==
    IF o1 = <<>> /\ o2 = <<>> THEN [ok |-> TRUE, a |-> ap, b |-> bp]
    ELSE IF o1 # <<>> /\ Head(o1).k = "insert"
    THEN TransformLoop(Tail(o1), o2, OpInsert(ap, Head(o1).s),
                       OpRetain(bp, SLen(Head(o1).s)))
    ELSE IF o2 # <<>> /\ Head(o2).k = "insert"
    THEN TransformLoop(o1, Tail(o2), OpRetain(ap, SLen(Head(o2).s)),
                       OpInsert(bp, Head(o2).s))
    ELSE IF o1 = <<>> \/ o2 = <<>> THEN [ok |-> FALSE, a |-> ap, b |-> bp]
    ELSE LET x == Head(o1)
             y == Head(o2)
             m == Min(x.n, y.n)
             r1 == IF x.n > m THEN <<[x EXCEPT !.n = x.n - m]>> \o Tail(o1)
                   ELSE Tail(o1)
             r2 == IF y.n > m THEN <<[y EXCEPT !.n = y.n - m]>> \o Tail(o2)
                   ELSE Tail(o2)
         IN CASE x.k = "retain" /\ y.k = "retain" ->
                   TransformLoop(r1, r2, OpRetain(ap, m), OpRetain(bp, m))
              [] x.k = "delete" /\ y.k = "delete" ->
                   TransformLoop(r1, r2, ap, bp)
              [] x.k = "delete" /\ y.k = "retain" ->
                   TransformLoop(r1, r2, OpDelete(ap, m), bp)
              [] x.k = "retain" /\ y.k = "delete" ->
                   TransformLoop(r1, r2, ap, OpDelete(bp, m))

\* OperationSeq::transform: Err when the base lengths differ.
Transform(a, b) ==
    IF a.base_len # b.base_len THEN [ok |-> FALSE, a |-> EmptyOp, b |-> EmptyOp]
    ELSE TransformLoop(a.ops, b.ops, EmptyOp, EmptyOp)

RECURSIVE ApplyLoop(_, _)
ApplyLoop(ops, s) ==
    IF ops = <<>> THEN <<>>
    ELSE LET x == Head(ops) IN
         CASE x.k = "retain" -> SCat(STake(s, x.n), ApplyLoop(Tail(ops), SDrop(s, x.n)))
           [] x.k = "delete" -> ApplyLoop(Tail(ops), SDrop(s, x.n))
           [] x.k = "insert" -> SCat(x.s, ApplyLoop(Tail(ops), s))

\* OperationSeq::apply: Err when the text's length is not base_len.
Apply(o, s) ==
    IF SLen(s) # o.base_len THEN [ok |-> FALSE, text |-> <<>>]
    ELSE [ok |-> TRUE, text |-> ApplyLoop(o.ops, s)]

-----------------------------------------------------------------------------
(* ot::transform_index: moves a cursor index through an operation. *)

RECURSIVE TransformIndexLoop(_, _, _)
TransformIndexLoop(ops, index, new_index) ==
    IF ops = <<>> THEN new_index
    ELSE LET x == Head(ops) IN
         CASE x.k = "retain" ->
                IF index - x.n < 0 THEN new_index
                ELSE TransformIndexLoop(Tail(ops), index - x.n, new_index)
           [] x.k = "insert" ->
                TransformIndexLoop(Tail(ops), index, new_index + SLen(x.s))
           [] x.k = "delete" ->
                IF index - x.n < 0 THEN new_index - Min(index, x.n)
                ELSE TransformIndexLoop(Tail(ops), index - x.n,
                                        new_index - Min(index, x.n))

transform_index(operation, position) ==
    TransformIndexLoop(operation.ops, position, position)

-----------------------------------------------------------------------------
(* The engine: rustpad.rs *)

\* `256 * 1024` in apply_edit
MaxTargetLen == 256 * 1024

\* `u64::MAX`, the id of the operation Rustpad::load logs: all 64 bits set,
\* written -1 because TLC's integers are 32 bits wide; connection
\* ids count up from 0 and never reach it
SentinelId == -1

EmptyMap == [x \in {} |-> 0]

MapPut(m, key, v) == [x \in DOMAIN m \cup {key} |-> IF x = key THEN v ELSE m[x]]
MapRemove(m, key) == [x \in DOMAIN m \ {key} |-> m[x]]

\* State::default: the document a fresh Rustpad starts with
DefaultMeta == [language |-> "markdown", limited |-> FALSE, visibility |-> "Public"]

\* the loop keeping the second result of transform, the history operation
\* moved over the incoming one
RECURSIVE TransformHistorySecond(_, _)
TransformHistorySecond(operation, history) ==
    IF history = <<>> THEN [ok |-> TRUE, operation |-> operation]
    ELSE LET t == Transform(operation, Head(history).operation) IN
         IF ~t.ok THEN [ok |-> FALSE, operation |-> operation]
         ELSE TransformHistorySecond(t.b, Tail(history))

\* apply_edit, the loop `for history_op in &state.operations[revision..]`:
\* the incoming operation is the left argument and the first result is kept.
RECURSIVE TransformHistory(_, _)
TransformHistory(operation, history) ==
    IF history = <<>> THEN [ok |-> TRUE, operation |-> operation]
    ELSE LET t == Transform(operation, Head(history).operation) IN
         IF ~t.ok THEN [ok |-> FALSE, operation |-> operation]
         ELSE TransformHistory(t.a, Tail(history))

\* the revision check off by one: a revision one past the log gets through
RevisionAheadByTwo(revision, len) == revision > len + 1

\* apply_edit: `revision > len`, the revision is ahead of the log
RevisionAhead(revision, len) == revision > len

\* the size check made on the length the operation starts from
BaseTooLarge(operation) == operation.base_len > MaxTargetLen

\* apply_edit: `operation.target_len() > 256 * 1024`
TargetTooLarge(operation) == operation.target_len > MaxTargetLen

\* the cursor loop without its inner loop over the selections
TransformCursorsOnly(operation, data) ==
    [cursors |-> [i \in DOMAIN data.cursors |->
                     transform_index(operation, data.cursors[i])],
     selections |-> data.selections]

\* apply_edit: the cursor loop
TransformCursorData(operation, data) ==
    [cursors |-> [i \in DOMAIN data.cursors |->
                     transform_index(operation, data.cursors[i])],
     selections |-> [i \in DOMAIN data.selections |->
                     <<transform_index(operation, data.selections[i][1]),
                       transform_index(operation, data.selections[i][2])>>]]

\* the cursor loop run before the text is applied: a failed apply leaves the
\* cursors moved
ApplyEditCursorsFirst(st, id, revision, operation) ==
    LET len == Len(st.operations)
        rejected(why) == [err |-> why, st |-> st]
    IN IF RevisionAhead(revision, len) THEN rejected("revision")
       ELSE LET t == TransformHistory(operation,
                                      SubSeq(st.operations, revision + 1, len))
            IN IF ~t.ok THEN rejected("transform")
               ELSE IF TargetTooLarge(t.operation) THEN rejected("too_large")
               ELSE LET new == Apply(t.operation, st.text) IN
                    IF ~new.ok
                    THEN [err |-> "apply",
                          st |-> [st EXCEPT
                             !.cursors = [k \in DOMAIN st.cursors |->
                                  TransformCursorData(t.operation, st.cursors[k])]]]
                    ELSE [err |-> "",
                          st |-> [st EXCEPT
                             !.operations = Append(st.operations,
                                  [id |-> id, operation |-> t.operation]),
                             !.text = new.text,
                             !.cursors = [k \in DOMAIN st.cursors |->
                                  TransformCursorData(t.operation, st.cursors[k])],
                             !.dirty = TRUE]]

\* the entry put into the log at the revision the client named, before the
\* entries it was transformed against
ApplyEditAtRevision(st, id, revision, operation) ==
    LET len == Len(st.operations)
        rejected(why) == [err |-> why, st |-> st]
    IN IF RevisionAhead(revision, len) THEN rejected("revision")
       ELSE LET t == TransformHistory(operation,
                                      SubSeq(st.operations, revision + 1, len))
            IN IF ~t.ok THEN rejected("transform")
               ELSE IF TargetTooLarge(t.operation) THEN rejected("too_large")
               ELSE LET new == Apply(t.operation, st.text) IN
                    IF ~new.ok THEN rejected("apply")
                    ELSE [err |-> "",
                          st |-> [st EXCEPT
                             !.operations =
                                  SubSeq(st.operations, 1, revision)
                                  \o <<[id |-> id, operation |-> t.operation]>>
                                  \o SubSeq(st.operations, revision + 1, len),
                             !.text = new.text,
                             !.cursors = [k \in DOMAIN st.cursors |->
                                  TransformCursorData(t.operation, st.cursors[k])],
                             !.dirty = TRUE]]

\* Rustpad::apply_edit on the locked State `st`.  The result carries
\* err = "" with the new state when the edit is admitted, and the reason
\* with the state untouched when it bails.
ApplyEdit(st, id, revision, operation) ==
    LET len == Len(st.operations)
        rejected(why) == [err |-> why, st |-> st]
    IN IF RevisionAhead(revision, len) THEN rejected("revision")
       ELSE LET t == TransformHistory(operation,
                                      SubSeq(st.operations, revision + 1, len))
            IN IF ~t.ok THEN rejected("transform")
               ELSE IF TargetTooLarge(t.operation) THEN rejected("too_large")
               ELSE LET new == Apply(t.operation, st.text) IN
                    IF ~new.ok THEN rejected("apply")
                    ELSE [err |-> "",
                          st |-> [st EXCEPT
                             !.operations = Append(st.operations,
                                  [id |-> id, operation |-> t.operation]),
                             !.text = new.text,
                             !.cursors = [k \in DOMAIN st.cursors |->
                                  TransformCursorData(t.operation, st.cursors[k])],
                             !.dirty = TRUE]]

\* The State behind the RwLock
State == [operations |-> operations, text |-> text, meta |-> meta,
          users |-> users, cursors |-> cursors, dirty |-> dirty]

\* ServerMsg
MsgIdentity(id, info) == [type |-> "Identity", id |-> id, info |-> info]
MsgHistory(start, ops) == [type |-> "History", start |-> start, operations |-> ops]
MsgMeta(m) ==
    [type |-> "Meta", language |-> m.language, limited |-> m.limited,
     visibility |-> m.visibility]
MsgUserInfo(id, info) == [type |-> "UserInfo", id |-> id, info |-> info]
MsgUserCursor(id, data) == [type |-> "UserCursor", id |-> id, data |-> data]

\* ClientMsg; "Invalid" stands for a text frame that does not deserialise
Edit(revision, operation) ==
    [type |-> "Edit", revision |-> revision, operation |-> operation]
SetMeta(language, limited) ==
    [type |-> "SetMeta", language |-> language, limited |-> limited,
     visibility |-> None]
\* SetMeta { language, visibility }, the shape lib.rs's ClientMsg has
SetVisibility(language, visibility) ==
    [type |-> "SetMeta", language |-> language, limited |-> None,
     visibility |-> visibility]
ClientInfo(info) == [type |-> "ClientInfo", info |-> info]
CursorData(data) == [type |-> "CursorData", data |-> data]
Invalid == [type |-> "Invalid"]

\* handle_message, ClientMsg::ClientInfo arm: the UserInfo that is stored
\* and broadcast for a connection whose authenticated user is `user`
AdmitClientInfo(info, user) ==
    LET a == IF user # None THEN [info EXCEPT !.admin = user[1].admin] ELSE info
        b == IF user # None /\ a.admin THEN [a EXCEPT !.name = user[1].name] ELSE a
    IN [b EXCEPT !.hue = b.hue % 360]

\* the SetMeta arm taking an absent language for the default one
AdmitSetMetaResets(m, language, limited) ==
    [m EXCEPT !.language = IF language # None THEN language[1] ELSE "markdown",
              !.limited = IF limited # None THEN limited[1] ELSE m.limited]

\* handle_message, ClientMsg::SetMeta arm
AdmitSetMeta(m, language, limited) ==
    [m EXCEPT !.language = IF language # None THEN language[1] ELSE m.language,
              !.limited = IF limited # None THEN limited[1] ELSE m.limited]

\* Visibility, ordered Private < Internal < Public
Visibilities == {"Private", "Internal", "Public"}
VisibilityRank(v) == CASE v = "Private" -> 0 [] v = "Internal" -> 1 [] v = "Public" -> 2

\* Role
Roles == {"Anon", "User", "Admin"}

\* Role::can_access: Public for any role, Internal for User and Admin,
\* Private for Admin only
can_access(role, visibility) ==
    CASE visibility = "Public" -> TRUE
      [] visibility = "Internal" -> role \in {"User", "Admin"}
      [] visibility = "Private" -> role = "Admin"

\* handle_message, SetMeta arm for the visibility field: set when present
AdmitVisibility(m, visibility) ==
    IF visibility # None THEN [m EXCEPT !.visibility = visibility[1]] ELSE m

\* handle_message, SetMeta arm: the waiters are woken when the visibility
\* sent is strictly stricter than the current one
WakesOnVisibility(m, visibility) ==
    visibility # None /\ VisibilityRank(visibility[1]) < VisibilityRank(m.visibility)

\* handle_message with the Edit arm publishing the new operation on
\* `update` as a History
HandleMessagePublishesEdit(st, id, msg, user) ==
    CASE msg.type = "Invalid" ->
           [err |-> "parse", st |-> st, send |-> <<>>, notify |-> FALSE]
      [] msg.type = "Edit" ->
           LET r == ApplyEdit(st, id, msg.revision, msg.operation) IN
           [err |-> r.err, st |-> r.st,
            send |-> IF r.err = ""
                     THEN <<MsgHistory(Len(st.operations),
                                       <<r.st.operations[Len(r.st.operations)]>>)>>
                     ELSE <<>>,
            notify |-> r.err = ""]
      [] msg.type = "SetMeta" ->
           LET m == AdmitVisibility(
                        AdmitSetMeta(st.meta, msg.language, msg.limited),
                        msg.visibility) IN
           [err |-> "", st |-> [st EXCEPT !.meta = m, !.dirty = TRUE],
            send |-> <<MsgMeta(m)>>,
            notify |-> \/ msg.limited = Some(TRUE)
                       \/ WakesOnVisibility(st.meta, msg.visibility)]
      [] msg.type = "ClientInfo" ->
           LET info == AdmitClientInfo(msg.info, user) IN
           [err |-> "", st |-> [st EXCEPT !.users = MapPut(st.users, id, info)],
            send |-> <<MsgUserInfo(id, Some(info))>>, notify |-> FALSE]
      [] msg.type = "CursorData" ->
           [err |-> "", st |-> [st EXCEPT !.cursors = MapPut(st.cursors, id, msg.data)],
            send |-> <<MsgUserCursor(id, msg.data)>>, notify |-> FALSE]

\* Rustpad::handle_message on State `st` for connection `id`: the result
\* err, the new State, the messages sent on `update` after the lock is
\* released and whether notify_waiters is called.
HandleMessage(st, id, msg, user) ==
    CASE msg.type = "Invalid" ->
           [err |-> "parse", st |-> st, send |-> <<>>, notify |-> FALSE]
      [] msg.type = "Edit" ->
           LET r == ApplyEdit(st, id, msg.revision, msg.operation) IN
           [err |-> r.err, st |-> r.st, send |-> <<>>, notify |-> r.err = ""]
      [] msg.type = "SetMeta" ->
           LET m == AdmitVisibility(
                        AdmitSetMeta(st.meta, msg.language, msg.limited),
                        msg.visibility) IN
           [err |-> "", st |-> [st EXCEPT !.meta = m, !.dirty = TRUE],
            send |-> <<MsgMeta(m)>>,
            notify |-> \/ msg.limited = Some(TRUE)
                       \/ WakesOnVisibility(st.meta, msg.visibility)]
      [] msg.type = "ClientInfo" ->
           LET info == AdmitClientInfo(msg.info, user) IN
           [err |-> "", st |-> [st EXCEPT !.users = MapPut(st.users, id, info)],
            send |-> <<MsgUserInfo(id, Some(info))>>, notify |-> FALSE]
      [] msg.type = "CursorData" ->
           [err |-> "", st |-> [st EXCEPT !.cursors = MapPut(st.cursors, id, msg.data)],
            send |-> <<MsgUserCursor(id, msg.data)>>, notify |-> FALSE]

\* a load that sets the text and logs nothing
LoadNothing(document) == <<>>

\* Rustpad::load: the text becomes one logged insert with the sentinel id
LoadOperations(document) ==
    <<[id |-> SentinelId, operation |-> OpInsert(EmptyOp, document.text)]>>

-----------------------------------------------------------------------------
(* Bounds and inputs *)

\* connections opened on the engine
MaxConns == 2
\* length of the operation log
MaxLog == 2
\* retained prefix / suffix of the operations clients submit
MaxPos == 2
\* client messages received under SpecPresence
MaxMsgs == 1
\* client messages received under SpecOT
MaxEdits == 2
\* client messages received under SpecAccess
MaxGateMsgs == 1
\* client messages received under SpecReplay
MaxReplayMsgs == 3
\* client messages received under SpecLeave
MaxLeaveMsgs == 3
\* client messages received under SpecWire
MaxWireMsgs == 2
\* client messages received under SpecLag: one more than the channel holds
MaxLagMsgs == 17
\* client messages received under SpecCursor
MaxCursorMsgs == 3
\* client messages received under SpecMeta
MaxMetaMsgs == 2

\* SpecReject: the messages its clients send
MaxRejectMsgs == 3

\* SpecLww: the SetMeta messages its clients send
MaxLwwMsgs == 2

\* SpecSub: the messages its clients send
MaxSubMsgs == 3

\* SpecIdent: strings of up to MaxPrefix chosen chars followed by a run of
\* 'b', up to MaxOver bytes past Identifier::MAX_LEN
MaxPrefix == 1
MaxOver == 1

\* SpecAuth: the threads inside get_user at one time
MaxCallers == 2
\* client messages received under SpecPersist
MaxPersistMsgs == 2
\* store_document calls that return Err
MaxFails == 1

Conns == 0 .. MaxConns - 1

\* the connections the specifications open
LoopConns == {0, 1}

\* `broadcast::channel(16)` in Rustpad::default
BroadcastCapacity == 16

\* the one-character strings "a" and "b"
A1 == Rep("a", 1)
B1 == Rep("b", 1)

-----------------------------------------------------------------------------
(* Connections *)

\* a connection whose update_rx exists: handle_connection has subscribed
\* and has not returned
Subscribed(c) == pc[c] \in {"initial", "top", "check", "select", "sending"}

\* a connection whose global_update_rx exists: websocket_connection
\* subscribes to ServerState.update once the initial messages are sent
GlobalSubscribed(c) == pc[c] \in {"top", "check", "select"}

\* broadcast::Sender::send on `update`: every receiver gets the message; a
\* receiver that is BroadcastCapacity behind loses its oldest message and
\* is marked lagged
Broadcast(q, msgs) ==
    [c \in Conns |->
        IF Subscribed(c)
        THEN LET all == q[c] \o msgs IN
             IF Len(all) > BroadcastCapacity
             THEN SubSeq(all, Len(all) - BroadcastCapacity + 1, Len(all))
             ELSE all
        ELSE q[c]]

BroadcastLag(q, msgs) ==
    [c \in Conns |->
        lagged[c] \/ (Subscribed(c) /\ Len(q[c]) + Len(msgs) > BroadcastCapacity)]

\* Notify::notify_waiters: every Notified future that exists is woken
NotifyWaiters == [c \in Conns |-> woken[c] \/ armed[c]]

\* UserSessions::get_user for an Option<Session>
GetUser(s) == IF s = None THEN None ELSE sessions[s[1]]

\* the engine variables take the values of State record `st`
SetState(st) ==
    /\ operations' = st.operations
    /\ text' = st.text
    /\ meta' = st.meta
    /\ users' = st.users
    /\ cursors' = st.cursors
    /\ dirty' = st.dirty

\* all sequences that list the elements of set S once each
Orders(S) ==
    {f \in [1 .. Cardinality(S) -> S] : \A i, j \in DOMAIN f : i # j => f[i] # f[j]}

\* the History put before the Meta
InitialHistoryFirst(st, uo, co) ==
    (IF st.operations # <<>> THEN <<MsgHistory(0, st.operations)>> ELSE <<>>)
    \o <<MsgMeta(st.meta)>>
    \o [i \in DOMAIN uo |-> MsgUserInfo(uo[i], Some(st.users[uo[i]]))]
    \o [i \in DOMAIN co |-> MsgUserCursor(co[i], st.cursors[co[i]])]

\* send_initial: the messages built under the read lock; the two maps are
\* walked in the orders `uo` and `co`
InitialMessages(st, uo, co) ==
    <<MsgMeta(st.meta)>>
    \o (IF st.operations # <<>> THEN <<MsgHistory(0, st.operations)>> ELSE <<>>)
    \o [i \in DOMAIN uo |-> MsgUserInfo(uo[i], Some(st.users[uo[i]]))]
    \o [i \in DOMAIN co |-> MsgUserCursor(co[i], st.cursors[co[i]])]

\* the id read from `count` and `count` left as it was
OpenKeepsCount(c, s) ==
    /\ pc[c] = "idle"
    /\ c = count
    /\ count < MaxConns
    /\ count' = count
    /\ csession' = [csession EXCEPT ![c] = s]
    /\ cuser' = [cuser EXCEPT ![c] = GetUser(s)]
    /\ rx' = [rx EXCEPT ![c] = <<>>]
    /\ grx' = [grx EXCEPT ![c] = <<>>]
    /\ sock' = [sock EXCEPT ![c] = <<MsgIdentity(c, GetUser(s))>>]
    /\ pc' = [pc EXCEPT ![c] = "initial"]
    /\ UNCHANGED <<operations, text, meta, users, cursors, dirty, killed,
                   rev, armed, woken, lagged, err, inflight, sessions, nmsgs>>

\* on_connection up to the first await of send_initial: the id is taken
\* from `count`, the connection subscribes and is sent its Identity
Open(c, s) ==
    /\ pc[c] = "idle"
    /\ c = count
    /\ count < MaxConns
    /\ count' = count + 1
    /\ csession' = [csession EXCEPT ![c] = s]
    /\ cuser' = [cuser EXCEPT ![c] = GetUser(s)]
    /\ rx' = [rx EXCEPT ![c] = <<>>]
    /\ grx' = [grx EXCEPT ![c] = <<>>]
    /\ sock' = [sock EXCEPT ![c] = <<MsgIdentity(c, GetUser(s))>>]
    /\ pc' = [pc EXCEPT ![c] = "initial"]
    /\ UNCHANGED <<operations, text, meta, users, cursors, dirty, killed,
                   rev, armed, woken, lagged, err, inflight, sessions, nmsgs>>

\* send_initial: snapshot under the read lock, then the sends
SendInitial(c) ==
    /\ pc[c] = "initial"
    /\ \E uo \in Orders(DOMAIN users), co \in Orders(DOMAIN cursors) :
          sock' = [sock EXCEPT ![c] = @ \o InitialMessages(State, uo, co)]
    /\ rev' = [rev EXCEPT ![c] = Len(operations)]
    /\ pc' = [pc EXCEPT ![c] = "top"]
    /\ UNCHANGED <<operations, text, meta, users, cursors, dirty, killed, count,
                   cuser, armed, woken, rx, lagged, err, inflight,
                   sessions, csession, grx, nmsgs>>

\* the loop with the Notified future created only at the select, after the
\* checks: nothing is armed while the revision is read
LoopArmLate(c) ==
    /\ pc[c] = "top"
    /\ woken' = [woken EXCEPT ![c] = FALSE]
    /\ pc' = [pc EXCEPT ![c] = "check"]
    /\ UNCHANGED <<operations, text, meta, users, cursors, dirty, killed, count,
                   cuser, rev, armed, sock, rx, lagged, err, inflight,
                   sessions, csession, grx, nmsgs>>

\* top of the loop: `let notified = self.notify.notified()`
LoopArm(c) ==
    /\ pc[c] = "top"
    /\ armed' = [armed EXCEPT ![c] = TRUE]
    /\ woken' = [woken EXCEPT ![c] = FALSE]
    /\ pc' = [pc EXCEPT ![c] = "check"]
    /\ UNCHANGED <<operations, text, meta, users, cursors, dirty, killed, count,
                   cuser, rev, sock, rx, lagged, err, inflight,
                   sessions, csession, grx, nmsgs>>

IsAdmin(c) == cuser[c] # None /\ cuser[c][1].admin

\* socket_handler / websocket_connection: the role of a request's user
RoleOf(user) ==
    IF user = None THEN "Anon" ELSE IF user[1].admin THEN "Admin" ELSE "User"

\* the visibility check that lets User through wherever Admin gets through
NoAccessAnonOnly(c) ==
    RoleOf(cuser[c]) = "Anon" /\ ~can_access("Anon", meta.visibility)

\* the loop's access checks: `!is_admin && self.is_limited().await`
\* (handle_connection) and `!role.can_access(rustpad.visibility().await)`
\* (websocket_connection)
NoAccess(c) ==
    \/ ~IsAdmin(c) /\ meta.limited
    \/ ~can_access(RoleOf(cuser[c]), meta.visibility)

\* the slice taken one operation early: operations[start - 1..]
HistorySliceEarly(ops, start) ==
    IF start < Len(ops) THEN SubSeq(ops, IF start = 0 THEN 1 ELSE start, Len(ops))
    ELSE <<>>

\* send_history: the slice operations[start..], sent when it is not empty
HistorySlice(ops, start) ==
    IF start < Len(ops) THEN SubSeq(ops, start + 1, Len(ops)) ELSE <<>>

\* the checks between arming and the select: killed, is_limited, revision
LoopCheck(c) ==
    /\ pc[c] = "check"
    /\ IF killed \/ NoAccess(c)
       THEN /\ pc' = [pc EXCEPT ![c] = "closing"]
            /\ armed' = [armed EXCEPT ![c] = FALSE]
            /\ UNCHANGED <<rev, sock>>
       ELSE /\ pc' = [pc EXCEPT ![c] = "select"]
            /\ armed' = armed
            /\ IF Len(operations) > rev[c]
               THEN LET slice == HistorySlice(operations, rev[c]) IN
                    /\ sock' = [sock EXCEPT ![c] = Append(@, MsgHistory(rev[c], slice))]
                    /\ rev' = [rev EXCEPT ![c] = rev[c] + Len(slice)]
               ELSE UNCHANGED <<rev, sock>>
    /\ UNCHANGED <<operations, text, meta, users, cursors, dirty, killed, count,
                   cuser, woken, rx, lagged, err, inflight,
                   sessions, csession, grx, nmsgs>>

\* select!: `_ = notified => {}`
SelectNotified(c) ==
    /\ pc[c] = "select"
    /\ woken[c]
    /\ armed' = [armed EXCEPT ![c] = FALSE]
    /\ woken' = [woken EXCEPT ![c] = FALSE]
    /\ pc' = [pc EXCEPT ![c] = "top"]
    /\ UNCHANGED <<operations, text, meta, users, cursors, dirty, killed, count,
                   cuser, rev, sock, rx, lagged, err, inflight,
                   sessions, csession, grx, nmsgs>>

\* a receive that goes on with the oldest message kept after an overflow
SelectUpdateSkips(c) ==
    /\ pc[c] = "select"
    /\ lagged[c] \/ rx[c] # <<>>
    /\ armed' = [armed EXCEPT ![c] = FALSE]
    /\ woken' = [woken EXCEPT ![c] = FALSE]
    /\ sock' = [sock EXCEPT ![c] = Append(@, Head(rx[c]))]
    /\ rx' = [rx EXCEPT ![c] = Tail(@)]
    /\ lagged' = [lagged EXCEPT ![c] = FALSE]
    /\ pc' = [pc EXCEPT ![c] = "top"]
    /\ UNCHANGED <<operations, text, meta, users, cursors, dirty, killed, count,
                   cuser, rev, err, inflight, sessions, csession, grx, nmsgs>>

\* select!: `update = update_rx.recv()`; a lagged receiver yields Err and
\* `update?` ends the connection
SelectUpdate(c) ==
    /\ pc[c] = "select"
    /\ lagged[c] \/ rx[c] # <<>>
    /\ armed' = [armed EXCEPT ![c] = FALSE]
    /\ woken' = [woken EXCEPT ![c] = FALSE]
    /\ IF lagged[c]
       THEN /\ err' = [err EXCEPT ![c] = "lagged"]
            /\ pc' = [pc EXCEPT ![c] = "closing"]
            /\ UNCHANGED <<rx, sock>>
       ELSE /\ sock' = [sock EXCEPT ![c] = Append(@, Head(rx[c]))]
            /\ rx' = [rx EXCEPT ![c] = Tail(@)]
            /\ pc' = [pc EXCEPT ![c] = "top"]
            /\ err' = err
    /\ UNCHANGED <<operations, text, meta, users, cursors, dirty, killed, count,
                   cuser, rev, lagged, inflight, sessions, csession, grx, nmsgs>>

\* select!: `socket.next()` yields None, the client has gone
ClientClose(c) ==
    /\ pc[c] = "select"
    /\ armed' = [armed EXCEPT ![c] = FALSE]
    /\ woken' = [woken EXCEPT ![c] = FALSE]
    /\ pc' = [pc EXCEPT ![c] = "closing"]
    /\ UNCHANGED <<operations, text, meta, users, cursors, dirty, killed, count,
                   cuser, rev, sock, rx, lagged, err, inflight,
                   sessions, csession, grx, nmsgs>>

\* the effect of handle_message(c, msg) on the engine, the broadcast
\* receivers and the Notified futures for a connection whose user is
\* `user`; `glag` marks the receivers of ServerState.update that overflow
\* in the same step and `at` is where the connection goes on when the
\* message is admitted
Handle(c, msg, user, glag, at) ==
    \E r \in {HandleMessage(State, c, msg, user)} :
        /\ SetState(r.st)
        /\ rx' = Broadcast(rx, r.send)
        /\ lagged' = [d \in Conns |-> BroadcastLag(rx, r.send)[d] \/ glag[d]]
        /\ err' = [err EXCEPT ![c] = r.err]
        /\ pc' = [pc EXCEPT ![c] = IF r.err = "" THEN at ELSE "closing"]
        /\ woken' = IF r.notify THEN [NotifyWaiters EXCEPT ![c] = FALSE]
                    ELSE [woken EXCEPT ![c] = FALSE]
        /\ armed' = [armed EXCEPT ![c] = FALSE]
        /\ nmsgs' = nmsgs + 1

\* GlobalMsg
UserUpdate(user) == [type |-> "UserUpdate", user |-> user]

\* broadcast::Sender::send on ServerState.update
GlobalBroadcast(q, msgs) ==
    [c \in Conns |->
        IF GlobalSubscribed(c)
        THEN LET all == q[c] \o msgs IN
             IF Len(all) > BroadcastCapacity
             THEN SubSeq(all, Len(all) - BroadcastCapacity + 1, Len(all))
             ELSE all
        ELSE q[c]]

GlobalLag(q, msgs) ==
    [c \in Conns |->
        GlobalSubscribed(c) /\ Len(q[c]) + Len(msgs) > BroadcastCapacity]

\* UserSessions::update_user: the LoggedIn session's user is replaced
UpdateSession(ss, s, user) ==
    IF s \in DOMAIN ss /\ ss[s] # None THEN [ss EXCEPT ![s] = Some(user)] ELSE ss

\* websocket_connection, before handle_message: a ClientInfo on a
\* connection with a user sets `user.hue = *hue`
HueUpdated(user, msg) ==
    IF user # None /\ msg.type = "ClientInfo"
    THEN Some([user[1] EXCEPT !.hue = msg.info.hue])
    ELSE user

\* select!: the socket yields a text message: the hue of a ClientInfo goes
\* to the connection's user, to the session store and out as a UserUpdate,
\* then the message is handled by handle_message
Receive(c, msg) ==
    /\ pc[c] = "select"
    /\ LET user == HueUpdated(cuser[c], msg)
           stored == /\ cuser[c] # None
                     /\ msg.type = "ClientInfo"
                     /\ csession[c] # None
           out == IF stored THEN <<UserUpdate(user[1])>> ELSE <<>>
       IN /\ cuser' = [cuser EXCEPT ![c] = user]
          /\ sessions' = IF stored
                         THEN UpdateSession(sessions, csession[c][1], user[1])
                         ELSE sessions
          /\ grx' = GlobalBroadcast(grx, out)
          /\ Handle(c, msg, user, GlobalLag(grx, out), "top")
    /\ UNCHANGED <<killed, count, rev, sock, csession>>

\* the message comes straight from the client
RecvClient(c, msg) ==
    /\ Receive(c, msg)
    /\ UNCHANGED inflight

\* the message is one the client sent earlier and that waited in the socket
Process(c) ==
    /\ inflight[c] # None
    /\ Receive(c, inflight[c][1])
    /\ inflight' = [inflight EXCEPT ![c] = None]

\* the close path that leaves the id's cursor in place
CloseKeepsCursor(c) ==
    /\ pc[c] = "closing"
    /\ users' = MapRemove(users, c)
    /\ cursors' = cursors
    /\ rx' = Broadcast(rx, <<MsgUserInfo(c, None)>>)
    /\ lagged' = BroadcastLag(rx, <<MsgUserInfo(c, None)>>)
    /\ pc' = [pc EXCEPT ![c] = "closed"]
    /\ UNCHANGED <<operations, text, meta, dirty, killed, count, cuser, rev,
                   armed, woken, sock, err, inflight, sessions, csession, grx, nmsgs>>

\* on_connection after handle_connection has returned: the socket is
\* closed, the id leaves users and cursors, and UserInfo {id, None} is
\* broadcast
Close(c) ==
    /\ pc[c] = "closing"
    /\ users' = MapRemove(users, c)
    /\ cursors' = MapRemove(cursors, c)
    /\ rx' = Broadcast(rx, <<MsgUserInfo(c, None)>>)
    /\ lagged' = BroadcastLag(rx, <<MsgUserInfo(c, None)>>)
    /\ pc' = [pc EXCEPT ![c] = "closed"]
    /\ UNCHANGED <<operations, text, meta, dirty, killed, count, cuser, rev,
                   armed, woken, sock, err, inflight, sessions, csession, grx, nmsgs>>

\* the conversion of an auth User into the engine's user record
UserInfoOf(user) == [name |-> user.name, hue |-> user.hue, admin |-> user.admin]

\* Rustpad::update_user: the entries of users whose name is the updated
\* user's take its record, and a UserInfo is broadcast for each, in the
\* order `order` of their ids
UpdateUser(st, info, order) ==
    [st |-> [st EXCEPT !.users =
                [id \in DOMAIN st.users |->
                    IF st.users[id].name = info.name THEN info ELSE st.users[id]]],
     send |-> [i \in DOMAIN order |-> MsgUserInfo(order[i], Some(info))]]

\* select!: `update = global_update_rx.recv()` yields a UserUpdate: a
\* connection whose user has that name takes the updated user and hands it
\* to Rustpad::update_user
GlobalUpdate(c) ==
    /\ pc[c] = "select"
    /\ ~lagged[c]
    /\ grx[c] # <<>>
    /\ grx' = [grx EXCEPT ![c] = Tail(@)]
    /\ armed' = [armed EXCEPT ![c] = FALSE]
    /\ woken' = [woken EXCEPT ![c] = FALSE]
    /\ pc' = [pc EXCEPT ![c] = "top"]
    /\ LET updated == Head(grx[c]).user IN
       IF cuser[c] # None /\ cuser[c][1].name = updated.name
       THEN /\ cuser' = [cuser EXCEPT ![c] = Some(updated)]
            /\ \E order \in Orders({id \in DOMAIN users :
                                       users[id].name = updated.name}) :
               \E r \in {UpdateUser(State, UserInfoOf(updated), order)} :
                  /\ SetState(r.st)
                  /\ rx' = Broadcast(rx, r.send)
                  /\ lagged' = BroadcastLag(rx, r.send)
       ELSE UNCHANGED <<cuser, operations, text, meta, users, cursors, dirty,
                        rx, lagged>>
    /\ UNCHANGED <<killed, count, rev, sock, err, inflight, sessions, csession,
                   nmsgs>>

\* on_connection from the start to the top of the loop, with no other task
\* running in between: Open followed by SendInitial
Attach(c, s) ==
    /\ pc[c] = "idle"
    /\ c = count
    /\ count < MaxConns
    /\ count' = count + 1
    /\ csession' = [csession EXCEPT ![c] = s]
    /\ cuser' = [cuser EXCEPT ![c] = GetUser(s)]
    /\ rx' = [rx EXCEPT ![c] = <<>>]
    /\ grx' = [grx EXCEPT ![c] = <<>>]
    /\ \E uo \in Orders(DOMAIN users), co \in Orders(DOMAIN cursors) :
          sock' = [sock EXCEPT ![c] = <<MsgIdentity(c, GetUser(s))>>
                                      \o InitialMessages(State, uo, co)]
    /\ rev' = [rev EXCEPT ![c] = Len(operations)]
    /\ pc' = [pc EXCEPT ![c] = "top"]
    /\ UNCHANGED <<operations, text, meta, users, cursors, dirty, killed,
                   armed, woken, lagged, err, inflight, sessions, nmsgs>>

\* one pass of the loop from its top to the select, with no other task
\* running in between: LoopArm followed by LoopCheck
Turn(c) ==
    /\ pc[c] = "top"
    /\ woken' = [woken EXCEPT ![c] = FALSE]
    /\ IF killed \/ NoAccess(c)
       THEN /\ pc' = [pc EXCEPT ![c] = "closing"]
            /\ armed' = [armed EXCEPT ![c] = FALSE]
            /\ UNCHANGED <<rev, sock>>
       ELSE /\ pc' = [pc EXCEPT ![c] = "select"]
            /\ armed' = [armed EXCEPT ![c] = TRUE]
            /\ IF Len(operations) > rev[c]
               THEN LET slice == HistorySlice(operations, rev[c]) IN
                    /\ sock' = [sock EXCEPT ![c] = Append(@, MsgHistory(rev[c], slice))]
                    /\ rev' = [rev EXCEPT ![c] = rev[c] + Len(slice)]
               ELSE UNCHANGED <<rev, sock>>
    /\ UNCHANGED <<operations, text, meta, users, cursors, dirty, killed, count,
                   cuser, rx, lagged, err, inflight,
                   sessions, csession, grx, nmsgs>>

-----------------------------------------------------------------------------
(* Construction *)

\* PersistedDocument values the store may hold
StoredDocs == {[text |-> A1, meta |-> DefaultMeta]}

\* the users the session store knows: LoggedIn sessions and their users
SessionIds == {"s1", "s2"}
InitSessions ==
    [s \in SessionIds |->
        IF s = "s1" THEN Some([name |-> "alice", hue |-> 10, admin |-> FALSE])
        ELSE Some([name |-> "root", hue |-> 20, admin |-> TRUE])]

\* PersistedDocument::default
DefaultDocument == [text |-> <<>>, meta |-> DefaultMeta]

\* the threads that call get_user
Callers == 1 .. MaxCallers

\* a session cookie with a LoggingIn entry, and one with no entry
LoggingInSession == "s3"
UnknownSession == "s4"

NoCall == [pc |-> "idle", session |-> None, ret |-> None]

\* UserSessions after the logins: nothing expired, no guard held, no call
AuthQuiet ==
    [logging |-> {LoggingInSession}, expired |-> {}, readers |-> {},
     call |-> [t \in Callers |-> NoCall]]

\* Rustpad::default
InitDefault ==
    /\ operations = <<>>
    /\ text = <<>>
    /\ meta = DefaultMeta
    /\ lastSnapshot = DefaultDocument

\* Rustpad::load(document)
InitLoad(document) ==
    /\ operations = LoadOperations(document)
    /\ text = document.text
    /\ meta = document.meta
    /\ lastSnapshot = document

\* the rest of a Rustpad after construction, no connection opened yet,
\* every connection slot at position `at`
InitFresh(at) ==
    /\ users = EmptyMap
    /\ cursors = EmptyMap
    /\ dirty = FALSE
    /\ count = 0
    /\ killed = FALSE
    /\ pc = [c \in Conns |-> at]
    /\ cuser = [c \in Conns |-> None]
    /\ rev = [c \in Conns |-> 0]
    /\ armed = [c \in Conns |-> FALSE]
    /\ woken = [c \in Conns |-> FALSE]
    /\ sock = [c \in Conns |-> <<>>]
    /\ rx = [c \in Conns |-> <<>>]
    /\ lagged = [c \in Conns |-> FALSE]
    /\ err = [c \in Conns |-> ""]
    /\ inflight = [c \in Conns |-> None]
    /\ sessions = InitSessions
    /\ auth = AuthQuiet
    /\ outbox = [c \in Conns |-> <<>>]
    /\ csession = [c \in Conns |-> None]
    /\ grx = [c \in Conns |-> <<>>]
    /\ nmsgs = 0

\* socket_handler has run for every connection slot, no upgrade has yet
InitRest == InitFresh("idle")

\* the files of the database: no document, or the text and meta of one
NoFiles == [text |-> None, meta |-> None]
Files(document) == [text |-> Some(document.text), meta |-> Some(document.meta)]

\* nothing was handed to store_document yet; `document` was, and it returned Ok
NeverStored == [ok |-> None, tried |-> None]
StoredOk(document) == [ok |-> Some(document), tried |-> Some(document)]

\* persister at the top of its loop; ServerState::persist not yet called
\* Identifier::MAX_LEN, in bytes
MAX_LEN == 64

\* Identifier::valid_char: char::is_ascii_alphanumeric, or '-', '_', ' '
valid_char(c) ==
    \/ c \in 48 .. 57
    \/ c \in 65 .. 90
    \/ c \in 97 .. 122
    \/ c \in {45, 95, 32}

\* the UTF-8 encoding of a char below U+0800: one byte for ASCII, two otherwise
Utf8(c) == IF c < 128 THEN <<c>> ELSE <<192 + (c \div 64), 128 + (c % 64)>>

\* str::as_bytes of a string given as its sequence of chars
RECURSIVE as_bytes(_)
as_bytes(s) == IF s = <<>> THEN <<>> ELSE Utf8(Head(s)) \o as_bytes(Tail(s))

IdOk(bytes) == [ok |-> TRUE, bytes |-> bytes]
IdErr(msg) == [ok |-> FALSE, msg |-> msg]

\* Identifier::from_str: the length check is in bytes and comes first, then
\* every char is checked, then the bytes are copied into a zeroed buffer
from_str(s) ==
    LET bytes == as_bytes(s)
    IN IF Len(bytes) > MAX_LEN
       THEN IdErr("Document ID is too long")
       ELSE IF ~(\A i \in 1 .. Len(s) : valid_char(s[i]))
       THEN IdErr("Document ID contains invalid characters")
       ELSE IdOk([i \in 1 .. MAX_LEN |->
                     IF i <= Len(bytes) THEN bytes[i] ELSE 0])

\* the path of the document, "doc"
DocPath == <<100, 111, 99>>

\* two strings given to from_str, and what it returned for each
Parsed(a, b, ra, rb) == [a |-> a, b |-> b, ra |-> ra, rb |-> rb]

\* socket_handler's Path<Identifier> extractor has parsed the document's path
InitPath == ident = Parsed(DocPath, DocPath, Some(from_str(DocPath)), None)

PersisterIdle == [pc |-> "walk", snap |-> None]
ShutdownIdle == [pc |-> "running", snap |-> None, seen |-> None, err |-> FALSE]

\* lib.rs around an engine that socket_handler has just put in the registry
InitRegistry ==
    /\ resident = TRUE
    /\ resp = None
    /\ persister = PersisterIdle
    /\ shutdown = ShutdownIdle
    /\ fails = 0

\* socket_handler, Entry::Vacant: the engine is loaded from the store or
\* starts as the default
Init ==
    /\ \/ InitDefault /\ store = NoFiles /\ lastStored = NeverStored
       \/ \E d \in StoredDocs :
             InitLoad(d) /\ store = Files(d) /\ lastStored = StoredOk(d)
    /\ InitRest
    /\ InitRegistry
    /\ InitPath

-----------------------------------------------------------------------------
(* Spec: the connection loop, with clients that append to the text *)

\* the Edits of Spec's clients: append "a" to a text of n characters
AppendOps == {OpSeq(<<Retain(n), Insert(A1)>>) : n \in 0 .. MaxLog}

\* Edits at every revision up to two past the end of the log
EditMsgs(ops) ==
    {Edit(r, o) : r \in 0 .. Len(operations) + 2, o \in ops}

RecvEdit(c) ==
    /\ Len(operations) < MaxLog
    /\ \E m \in EditMsgs(AppendOps) : RecvClient(c, m)

Next ==
    (\E c \in LoopConns :
        \/ Open(c, None)
        \/ SendInitial(c)
        \/ LoopArm(c)
        \/ LoopCheck(c)
        \/ SelectNotified(c)
        \/ SelectUpdate(c)
        \/ RecvEdit(c)
        \/ ClientClose(c)
        \/ Close(c)) /\ UNCHANGED regVars

Spec == Init /\ [][Next]_vars

\* the steps a connection's task takes on its own once it is scheduled
ConnStep(c) ==
    /\ \/ SendInitial(c)
       \/ LoopArm(c)
       \/ LoopCheck(c)
       \/ SelectNotified(c)
       \/ SelectUpdate(c)
       \/ Close(c)
    /\ UNCHANGED regVars

\* Spec under the runtime's scheduling: a task that can run is run
LiveSpec == Spec /\ \A c \in LoopConns : WF_vars(ConnStep(c))

\* the History messages sent to connection c, in order
Histories(c) == SelectSeq(sock[c], LAMBDA m : m.type = "History")

RECURSIVE OpsIn(_)
OpsIn(hs) == IF hs = <<>> THEN 0 ELSE Len(Head(hs).operations) + OpsIn(Tail(hs))

\* the number of operations connection c has been sent
Delivered(c) == OpsIn(Histories(c))

\* connection c's task is inside handle_connection
InLoop(c) == pc[c] \in {"initial", "top", "check", "select"}

\* C2: the History messages of a connection are gap-free and duplicate-free:
\* each starts at the number of operations sent before it and carries the
\* log slice that begins there, and none is empty.
HistoryGapFree ==
    \A c \in Conns :
        LET hs == Histories(c) IN
        \A i \in DOMAIN hs :
            /\ hs[i].start = OpsIn(SubSeq(hs, 1, i - 1))
            /\ hs[i].operations # <<>>
            /\ hs[i].start + Len(hs[i].operations) <= Len(operations)
            /\ hs[i].operations =
                 SubSeq(operations, hs[i].start + 1,
                        hs[i].start + Len(hs[i].operations))

\* C2 witness: a connection received the log in two History messages, the
\* second one a catch-up that starts where the first ended
HistoryGapFreeWitness ==
    \E c \in Conns :
        /\ Len(Histories(c)) >= 2
        /\ Histories(c)[2].start > 0
        /\ Delivered(c) = Len(operations)

\* C3: no wakeup is lost: every operation in the log is eventually sent to
\* every connection that stays in its loop.
NoLostWakeup ==
    \A c \in LoopConns : \A n \in 1 .. MaxLog + 1 :
        (InLoop(c) /\ Len(operations) >= n) ~> (Delivered(c) >= n \/ ~InLoop(c))

\* C3 witness: a burst: two operations were appended while the connection
\* was between its revision check and its wait, and its wakeup is pending
NoLostWakeupWitness ==
    \E c \in LoopConns :
        /\ pc[c] = "select"
        /\ woken[c]
        /\ Len(operations) >= rev[c] + 2

\* C6: an Edit whose revision exceeds the length of the log is rejected:
\* the log and the text are as before and the connection that sent it is on
\* its way out, and once on its way out it is sent nothing more and never
\* returns; every other connection is where it was, still open if it was.
StaleRevisionRejected ==
    [][\A c \in Conns :
          /\ \A m \in EditMsgs(AppendOps) :
                (m.revision > Len(operations) /\ RecvClient(c, m))
                => /\ operations' = operations
                   /\ text' = text
                   /\ pc'[c] = "closing"
                   /\ err'[c] = "revision"
                   /\ sock'[c] = sock[c]
                   /\ \A d \in Conns \ {c} : pc'[d] = pc[d] /\ err'[d] = err[d]
          /\ pc[c] \in {"closing", "closed"}
                => /\ pc'[c] \in {"closing", "closed"}
                   /\ sock'[c] = sock[c]
                   /\ err'[c] = err[c]]_vars

\* C6 witness: a connection was closed for a revision ahead of the log
\* while another connection is still in its loop
StaleRevisionWitness ==
    \E c, d \in Conns :
        /\ c # d
        /\ pc[c] = "closed"
        /\ err[c] = "revision"
        /\ pc[d] = "select"

-----------------------------------------------------------------------------
(* SpecOT: the engine under edits that insert and delete anywhere, sent at
   any revision, small and at the size limit *)

\* the length of the text at revision r, the base a client at r edits
LenAt(r) ==
    IF r = 0 \/ r > Len(operations) THEN 0
    ELSE operations[r].operation.target_len

\* JSON [p, s, l - p]: insert s at position p of a text of l characters
InsertAt(p, s, l) == OpSeq(<<Retain(p), Insert(s), Retain(l - p)>>)

\* JSON [p, -n, l - p - n]: delete n characters at position p
DeleteAt(p, n, l) == OpSeq(<<Retain(p), Delete(n), Retain(l - p - n)>>)

\* the positions clients edit at: the first MaxPos and the end
Positions(l) == {p \in 0 .. MaxPos : p <= l} \cup {l}

\* strings that bring a text to the limit and past it
LimitString == Rep("a", MaxTargetLen)
OverLimitString == Rep("a", MaxTargetLen + 1)

\* the operations a client sends against a text of l characters; the last
\* one has the wrong base length
OtOps(l) ==
    {InsertAt(p, x, l) : p \in Positions(l), x \in {A1, B1}}
    \cup {DeleteAt(p, 1, l) : p \in {q \in Positions(l) : q < l}}
    \cup {InsertAt(0, LimitString, l), InsertAt(0, OverLimitString, l)}
    \cup {InsertAt(0, A1, l + 1)}

OtMsgs ==
    UNION {{Edit(r, o) : o \in OtOps(LenAt(r))} : r \in 0 .. Len(operations) + 1}

RecvOT(c) ==
    /\ nmsgs < MaxEdits
    /\ \E m \in OtMsgs : RecvClient(c, m)

NextOT ==
    (\E c \in LoopConns :
        \/ Attach(c, None)
        \/ Turn(c)
        \/ SelectNotified(c)
        \/ RecvOT(c)
        \/ Close(c)) /\ UNCHANGED regVars

SpecOT == Init /\ [][NextOT]_vars

\* the text the operations `ops` of a log produce from `s`, applied in order
RECURSIVE ApplyAll(_, _)
ApplyAll(ops, s) ==
    IF ops = <<>> THEN [ok |-> TRUE, text |-> s]
    ELSE LET r == Apply(Head(ops).operation, s) IN
         IF r.ok THEN ApplyAll(Tail(ops), r.text) ELSE [ok |-> FALSE, text |-> s]

\* C1: in every reachable state the operations of the log, applied in order
\* to the empty text, all apply and yield the engine's text.
LogYieldsText == ApplyAll(operations, <<>>) = [ok |-> TRUE, text |-> text]

\* C1 witness: a loaded document after two accepted edits of two
\* connections, one of which deleted a character
LogYieldsTextWitness ==
    /\ Len(operations) = 3
    /\ operations[1].id = SentinelId
    /\ operations[2].id # operations[3].id
    /\ \E i \in 2 .. 3 : \E j \in DOMAIN operations[i].operation.ops :
          operations[i].operation.ops[j].k = "delete"
    /\ text # <<>>

\* `operation`, sent at revision r, moved over operations[r + 1 .. n] one
\* after the other, each time as transform's left argument, and whether
\* every transform succeeded
Moved(operation, r) ==
    LET n == Len(operations)
        f[i \in r .. n] ==
            IF i = r THEN [ok |-> TRUE, operation |-> operation]
            ELSE LET t == Transform(f[i - 1].operation, operations[i].operation)
                 IN [ok |-> f[i - 1].ok /\ t.ok, operation |-> t.a]
    IN f[n]

\* C5: wherever the server takes a message, an Edit that connection c sends
\* at a revision r <= len and that is admitted appends exactly one entry to the
\* log: id c and the operation moved over operations[r..] in log order; at
\* r = len that is the operation as sent, and an insert of s sent at
\* revision 0 is logged as [insert s, retain n] for a text of n characters.
TransformedAppend ==
    \A c \in LoopConns : (pc[c] = "select" /\ nmsgs < MaxEdits) =>
        \A m \in OtMsgs : m.revision <= Len(operations) =>
            \A r \in {HandleMessage(State, c, m, cuser[c])} : r.err = "" =>
                LET n == Len(operations)
                    logged == r.st.operations
                IN /\ Len(logged) = n + 1
                   /\ SubSeq(logged, 1, n) = operations
                   /\ logged[n + 1].id = c
                   /\ logged[n + 1].operation
                        = Moved(m.operation, m.revision).operation
                   /\ m.revision = n => logged[n + 1].operation = m.operation
                   /\ \A x \in {A1, B1, LimitString} :
                         (m.revision = 0 /\ m.operation = OpSeq(<<Insert(x)>>))
                         => logged[n + 1].operation
                              = OpSeq(<<Insert(x), Retain(SLen(text))>>)

\* C5 witness: connection 1's insert of "b" was moved over two characters
\* and sent to connection 0 as History {start 2, [insert "b", retain 2]}
TransformedAppendWitness ==
    /\ Len(operations) = 3
    /\ operations[2].id = 0
    /\ \E i \in DOMAIN sock[0] :
          sock[0][i] = MsgHistory(2, <<[id |-> 1,
                           operation |-> OpSeq(<<Insert(B1), Retain(2)>>)]>>)

\* C7: wherever the server takes a message, an Edit whose operation, moved over the
\* history it missed, has a target length above MaxTargetLen is rejected for
\* its size with the engine untouched; a connection rejected for the size
\* is on its way out or gone; and no operation an Edit appended to the log
\* has a target length above MaxTargetLen.
OversizedRejected ==
    /\ \A c \in LoopConns : (pc[c] = "select" /\ nmsgs < MaxEdits) =>
          \A m \in OtMsgs : m.revision <= Len(operations) =>
              \A mv \in {Moved(m.operation, m.revision)} :
                  (mv.ok /\ mv.operation.target_len > MaxTargetLen) =>
                      \A r \in {HandleMessage(State, c, m, cuser[c])} :
                          r.err = "too_large" /\ r.st = State
    /\ \A c \in Conns : err[c] = "too_large" => pc[c] \in {"closing", "closed"}
    /\ \A i \in DOMAIN operations :
          operations[i].id # SentinelId
          => operations[i].operation.target_len <= MaxTargetLen

\* C7 witness: the text is exactly at the limit and a connection that sent
\* one character more was rejected for the size
OversizedRejectedWitness ==
    /\ SLen(text) = MaxTargetLen
    /\ \E c \in Conns : err[c] = "too_large" /\ pc[c] \in {"closing", "closed"}

-----------------------------------------------------------------------------
(* SpecConc: clients that stay, whose Edits wait in their sockets while the
   server handles those of others; each Edit fits the text of the revision
   it names, so none is rejected *)

\* the operations SpecConc's clients send against a text of l characters
ConcOps(l) ==
    {InsertAt(p, x, l) : p \in Positions(l), x \in {A1, B1}}
    \cup {DeleteAt(p, 1, l) : p \in {q \in Positions(l) : q < l}}

ConcMsgs ==
    UNION {{Edit(r, o) : o \in ConcOps(LenAt(r))} : r \in 0 .. Len(operations)}

InFlight == {c \in Conns : inflight[c] # None}

\* a client sends an Edit made at a revision it has seen; the Edit waits in
\* the socket until the connection's select takes it
Submit(c) ==
    /\ pc[c] \in {"top", "check", "select"}
    /\ inflight[c] = None
    /\ nmsgs + Cardinality(InFlight) < MaxEdits
    /\ \E m \in ConcMsgs : inflight' = [inflight EXCEPT ![c] = Some(m)]
    /\ UNCHANGED <<operations, text, meta, users, cursors, dirty, count, killed,
                   pc, cuser, rev, armed, woken, sock, rx, lagged, err,
                   sessions, csession, grx, nmsgs>>

NextConc ==
    (\E c \in LoopConns :
        \/ Attach(c, None)
        \/ Turn(c)
        \/ SelectNotified(c)
        \/ Submit(c)
        \/ Process(c)) /\ UNCHANGED regVars

SpecConc == Init /\ [][NextConc]_vars

\* the engine after it handled the Edit in flight from x and then the one
\* from y, and whether it admitted both
Both(x, y) ==
    LET mx == inflight[x][1]
        my == inflight[y][1]
        first == ApplyEdit(State, x, mx.revision, mx.operation)
        second == ApplyEdit(first.st, y, my.revision, my.operation)
    IN [ok |-> first.err = "" /\ second.err = "", text |-> second.st.text]

\* the positions of the base text at which an operation inserts
RECURSIVE InsertPositions(_, _)
InsertPositions(ops, at) ==
    IF ops = <<>> THEN {}
    ELSE IF Head(ops).k = "insert"
         THEN {at} \cup InsertPositions(Tail(ops), at)
         ELSE InsertPositions(Tail(ops), at + Head(ops).n)

\* the Edit in flight from c as it stands against the current log
Current(c) == Moved(inflight[c][1].operation, inflight[c][1].revision).operation

\* the Edits in flight from c and d insert at no common position
Apart(c, d) ==
    InsertPositions(Current(c).ops, 0) \cap InsertPositions(Current(d).ops, 0) = {}

\* C4 as claimed: two Edits in flight at once from two connections, admitted
\* in either order, leave the same text whichever the server handles first.
ArrivalOrderIrrelevant ==
    \A c, d \in LoopConns :
        (c # d /\ inflight[c] # None /\ inflight[d] # None) =>
            ((Both(c, d).ok /\ Both(d, c).ok) => Both(c, d).text = Both(d, c).text)

\* C4 as amended: two Edits in flight at once from two connections that,
\* each moved over the history it missed, insert at no common position and
\* are admitted in either order leave the same text whichever the server
\* handles first.
ArrivalOrderIrrelevantApart ==
    \A c, d \in LoopConns :
        (c # d /\ inflight[c] # None /\ inflight[d] # None /\ Apart(c, d)) =>
            ((Both(c, d).ok /\ Both(d, c).ok) => Both(c, d).text = Both(d, c).text)

\* C4 witness: an insert and a delete in flight at once at different
\* positions, admitted in either order
ArrivalOrderWitness ==
    \E c, d \in LoopConns :
        /\ c # d
        /\ inflight[c] # None
        /\ inflight[d] # None
        /\ Apart(c, d)
        /\ InsertPositions(Current(c).ops, 0) # {}
        /\ \E j \in DOMAIN Current(d).ops : Current(d).ops[j].k = "delete"
        /\ Both(c, d).ok
        /\ Both(d, c).ok

-----------------------------------------------------------------------------
(* SpecPresence: connections with and without a session that stay and
   announce themselves with ClientInfo *)

\* what a connection may come with: no cookie, or the cookie of a session
Cookies == {None} \cup {Some(x) : x \in SessionIds}

\* the UserInfo records clients submit
ClientInfos ==
    [name : {"alice", "mallory"}, hue : {7, 400}, admin : BOOLEAN]

RecvInfo(c) ==
    /\ nmsgs < MaxMsgs
    /\ \E info \in ClientInfos : RecvClient(c, ClientInfo(info))

NextPresence ==
    (\E c \in LoopConns :
        \/ \E s \in Cookies : Attach(c, s)
        \/ Turn(c)
        \/ RecvInfo(c)
        \/ SelectUpdate(c)
        \/ GlobalUpdate(c)) /\ UNCHANGED regVars

SpecPresence == Init /\ [][NextPresence]_vars

\* the UserInfo records broadcast for connection id: queued in a receiver
\* or already sent on a socket
BroadcastInfos(id) ==
    {m.info[1] : m \in {x \in UNION {{rx[c][i] : i \in DOMAIN rx[c]}
                                        \cup {sock[c][i] : i \in DOMAIN sock[c]} :
                                        c \in Conns} :
                         x.type = "UserInfo" /\ x.id = id /\ x.info # None}}

\* the UserInfo records stored or broadcast for connection id
Infos(id) ==
    BroadcastInfos(id) \cup (IF id \in DOMAIN users THEN {users[id]} ELSE {})

\* C8: for a connection with an authenticated user, every UserInfo stored
\* or broadcast for it carries the authenticated name.
AuthenticatedName ==
    \A c \in Conns : cuser[c] # None =>
        \A info \in Infos(c) : info.name = cuser[c][1].name

\* C9: a UserInfo stored or broadcast for a connection is marked admin only
\* if the connection's authenticated user is an admin; without an
\* authenticated user it is never marked admin.
AdminOnlyIfAuthenticated ==
    \A c \in Conns : \A info \in Infos(c) :
        info.admin => (cuser[c] # None /\ cuser[c][1].admin)

\* C10: every entry of users and every broadcast UserInfo has a hue in
\* 0 .. 359.
HueInRange ==
    \A c \in Conns : \A info \in Infos(c) : info.hue \in 0 .. 359

-----------------------------------------------------------------------------
(* lib.rs: the database, the registry and the HTTP entry points *)

\* Database::load_document: the document when the meta file exists and
\* both files can be read, None for Err
LoadDocument(files) ==
    IF files.meta # None /\ files.text # None
    THEN Some([text |-> files.text[1], meta |-> files.meta[1]])
    ELSE None

\* Rustpad::snapshot
Snapshot == [text |-> text, meta |-> meta]

\* socket_handler: the request with cookie s is let through; Occupied
\* decides on the engine's visibility, Vacant on the stored document's, and
\* a document that cannot be loaded starts as Rustpad::default
SocketAllowed(s) ==
    LET role == RoleOf(GetUser(s))
        document == LoadDocument(store)
    IN IF resident THEN can_access(role, meta.visibility)
       ELSE IF document # None THEN can_access(role, document[1].meta.visibility)
       ELSE TRUE

\* HTTP responses
Response(handler, status, body, language) ==
    [handler |-> handler, status |-> status, body |-> body, language |-> language]

\* socket_handler, Entry::Vacant: the engine the registry takes in
Hydrated ==
    LET document == LoadDocument(store) IN
    IF document # None
    THEN [operations |-> LoadOperations(document[1]), text |-> document[1].text,
          meta |-> document[1].meta]
    ELSE [operations |-> <<>>, text |-> <<>>, meta |-> DefaultMeta]

\* socket_handler, Entry::Vacant: notify_persister.notify_waiters() wakes the
\* persister if it is parked on a Notified future, and does nothing otherwise
NotifyPersister ==
    IF persister.pc = "parked" THEN [persister EXCEPT !.pc = "walk"] ELSE persister

\* socket_handler for a request with cookie s that would become connection
\* slot c: 403, or the upgrade, after the engine is put in the registry if
\* it is not there.  A new engine is taken in only once no task of an
\* earlier engine is left, and the slots start over with it.
SocketHandler(c, s) ==
    /\ pc[c] = "request"
    /\ IF ~SocketAllowed(s)
       THEN /\ resp' = Some(Response("socket", 403, <<>>, None))
            /\ UNCHANGED <<operations, text, meta, users, cursors, dirty, count,
                           killed, pc, cuser, rev, armed, woken, sock, rx, lagged,
                           err, inflight, csession, grx, resident,
                           lastSnapshot>>
       ELSE /\ resp' = Some(Response("socket", 101, <<>>, None))
            /\ resident' = TRUE
            /\ IF resident
               THEN /\ pc' = [pc EXCEPT ![c] = "idle"]
                    /\ csession' = [csession EXCEPT ![c] = s]
                    /\ UNCHANGED <<operations, text, meta, users, cursors, dirty,
                                   count, killed, cuser, rev, armed, woken, sock,
                                   rx, lagged, err, inflight, grx,
                                   lastSnapshot>>
               ELSE /\ \A d \in Conns : pc[d] \in {"request", "closed"}
                    /\ lastSnapshot' = [text |-> Hydrated.text, meta |-> Hydrated.meta]
                    /\ operations' = Hydrated.operations
                    /\ text' = Hydrated.text
                    /\ meta' = Hydrated.meta
                    /\ users' = EmptyMap
                    /\ cursors' = EmptyMap
                    /\ dirty' = FALSE
                    /\ count' = 0
                    /\ killed' = FALSE
                    /\ pc' = [d \in Conns |-> IF d = c THEN "idle" ELSE "request"]
                    /\ csession' = [d \in Conns |-> IF d = c THEN s ELSE None]
                    /\ cuser' = [d \in Conns |-> None]
                    /\ rev' = [d \in Conns |-> 0]
                    /\ armed' = [d \in Conns |-> FALSE]
                    /\ woken' = [d \in Conns |-> FALSE]
                    /\ sock' = [d \in Conns |-> <<>>]
                    /\ rx' = [d \in Conns |-> <<>>]
                    /\ lagged' = [d \in Conns |-> FALSE]
                    /\ err' = [d \in Conns |-> ""]
                    /\ inflight' = [d \in Conns |-> None]
                    /\ grx' = [d \in Conns |-> <<>>]
    /\ persister' = IF SocketAllowed(s) /\ ~resident THEN NotifyPersister ELSE persister
    /\ UNCHANGED <<sessions, nmsgs, store, shutdown, fails, lastStored, ident, auth,
                   outbox>>

\* text_handler: the document read, from the engine if the registry has
\* it and from the database otherwise
TextDocument == IF resident THEN Some(Snapshot) ELSE LoadDocument(store)

\* the check of text_handler asking for an admin for Internal as well
TextAllowedAdminOnly(document, s) ==
    \/ document.meta.visibility = "Public"
    \/ /\ s # None
       /\ GetUser(s) # None
       /\ GetUser(s)[1].admin

\* text_handler: the visibility check
TextAllowed(document, s) ==
    \/ document.meta.visibility = "Public"
    \/ /\ s # None
       /\ GetUser(s) # None
       /\ (document.meta.visibility = "Internal" \/ GetUser(s)[1].admin)

\* text_handler: the response to a request with cookie s
TextResponse(s) ==
    LET document == TextDocument IN
    IF document = None THEN Response("text", 200, <<>>, None)
    ELSE IF ~TextAllowed(document[1], s) THEN Response("text", 403, <<>>, None)
    ELSE Response("text", 200, document[1].text, Some(document[1].meta.language))

TextHandler(s) ==
    /\ resp' = Some(TextResponse(s))
    /\ UNCHANGED <<operations, text, meta, users, cursors, dirty, count, killed,
                   pc, cuser, rev, armed, woken, sock, rx, lagged, err, inflight,
                   sessions, csession, grx, nmsgs,
                   store, resident, persister, shutdown, fails, lastStored, ident,
                   lastSnapshot, auth, outbox>>

\* Database::store_document: what the files hold afterwards and whether Ok
\* was returned.  The text file is written first and the meta file second,
\* each write can fail: Err leaves the files as they were or with the new
\* text beside the old meta.
StoreDocument(files, document) ==
    {[ok |-> TRUE, files |-> Files(document)],
     [ok |-> FALSE, files |-> files],
     [ok |-> FALSE, files |-> [files EXCEPT !.text = Some(document.text)]]}

\* the notification left out: kill only sets the flag
KillSilently == woken

\* Rustpad::kill: `killed` is set and notify_waiters is called; this is
\* what the Notified futures become
Kill == NotifyWaiters

\* the snapshot taken with the default meta in place of the engine's
DirtySnapshotOfText ==
    IF dirty THEN Some([text |-> text, meta |-> DefaultMeta]) ELSE None

\* Rustpad::dirty_snapshot: the snapshot if the engine is dirty
DirtySnapshot == IF dirty THEN Some(Snapshot) ELSE None

\* the dirty flag left out of the test: an engine without users is idle
IdleWithoutUsers == DOMAIN users = {}

\* Rustpad::kill_if_idle: `state.users.is_empty() && !state.dirty`
Idle == DOMAIN users = {} /\ ~dirty

\* persister, first loop: dirty_snapshot of every entry of the registry
\* (to_persist keeps the snapshot while the tick walks and stores the
\* registry's other entries)
PersisterWalk ==
    /\ persister.pc = "walk"
    /\ resident
    /\ persister' = [pc |-> IF dirty THEN "store" ELSE "evict", snap |-> DirtySnapshot]
    /\ dirty' = FALSE
    /\ lastSnapshot' = IF DirtySnapshot # None THEN DirtySnapshot[1] ELSE lastSnapshot
    /\ UNCHANGED <<operations, text, meta, users, cursors, count, killed,
                   pc, cuser, rev, armed, woken, sock, rx, lagged, err, inflight,
                   sessions, csession, grx, nmsgs,
                   store, resident, resp, shutdown, fails, lastStored, ident,
                   auth, outbox>>

\* persister, second loop: store_document for an entry with a snapshot; on
\* Err the error is logged and the entry is done with
PersisterStore ==
    /\ persister.pc = "store"
    /\ \E r \in StoreDocument(store, persister.snap[1]) :
          /\ r.ok \/ fails < MaxFails
          /\ store' = r.files
          /\ fails' = IF r.ok THEN fails ELSE fails + 1
          /\ lastStored' = [ok |-> IF r.ok THEN persister.snap ELSE lastStored.ok,
                            tried |-> persister.snap]
          /\ persister' = IF r.ok THEN [pc |-> "evict", snap |-> None]
                          ELSE PersisterIdle
    /\ UNCHANGED <<operations, text, meta, users, cursors, dirty, count, killed,
                   pc, cuser, rev, armed, woken, sock, rx, lagged, err, inflight,
                   sessions, csession, grx, nmsgs, resident, resp, shutdown, ident,
                   lastSnapshot, auth, outbox>>

\* the entry removed from the registry without the engine being killed
PersisterEvictAlive ==
    /\ persister.pc = "evict"
    /\ persister' = PersisterIdle
    /\ IF resident /\ Idle
       THEN /\ resident' = FALSE
            /\ UNCHANGED <<killed, woken>>
       ELSE UNCHANGED <<killed, woken, resident>>
    /\ UNCHANGED <<operations, text, meta, users, cursors, dirty, count,
                   pc, cuser, rev, armed, sock, rx, lagged, err, inflight,
                   sessions, csession, grx, nmsgs,
                   store, resp, shutdown, fails, lastStored, ident,
                   lastSnapshot, auth, outbox>>

\* persister, second loop: an entry without a snapshot or with one that was
\* stored: kill_if_idle, and the entry is removed if it returned true
PersisterEvict ==
    /\ persister.pc = "evict"
    /\ persister' = PersisterIdle
    /\ IF resident /\ Idle
       THEN /\ killed' = TRUE
            /\ woken' = Kill
            /\ resident' = FALSE
       ELSE UNCHANGED <<killed, woken, resident>>
    /\ UNCHANGED <<operations, text, meta, users, cursors, dirty, count,
                   pc, cuser, rev, armed, sock, rx, lagged, err, inflight,
                   sessions, csession, grx, nmsgs,
                   store, resp, shutdown, fails, lastStored, ident,
                   lastSnapshot, auth, outbox>>

\* ServerState::persist, called by main once the server has shut down:
\* dirty_snapshot of the entry; `seen` keeps what the engine held then
PersistSnapshot ==
    /\ shutdown.pc = "running"
    /\ shutdown' = [pc |-> IF resident /\ dirty THEN "store" ELSE "done",
                    snap |-> IF resident THEN DirtySnapshot ELSE None,
                    seen |-> IF resident THEN Some(Snapshot) ELSE None,
                    err |-> FALSE]
    /\ dirty' = IF resident THEN FALSE ELSE dirty
    /\ lastSnapshot' = IF resident /\ DirtySnapshot # None THEN DirtySnapshot[1]
                     ELSE lastSnapshot
    /\ UNCHANGED <<operations, text, meta, users, cursors, count, killed,
                   pc, cuser, rev, armed, woken, sock, rx, lagged, err, inflight,
                   sessions, csession, grx, nmsgs,
                   store, resident, resp, persister, fails, lastStored, ident,
                   auth, outbox>>

\* ServerState::persist: store_document for the snapshot; then main returns
PersistStore ==
    /\ shutdown.pc = "store"
    /\ \E r \in StoreDocument(store, shutdown.snap[1]) :
          /\ r.ok \/ fails < MaxFails
          /\ store' = r.files
          /\ fails' = IF r.ok THEN fails ELSE fails + 1
          /\ lastStored' = [ok |-> IF r.ok THEN shutdown.snap ELSE lastStored.ok,
                            tried |-> shutdown.snap]
          /\ shutdown' = [shutdown EXCEPT !.pc = "done", !.snap = None, !.err = ~r.ok]
    /\ UNCHANGED <<operations, text, meta, users, cursors, dirty, count, killed,
                   pc, cuser, rev, armed, woken, sock, rx, lagged, err, inflight,
                   sessions, csession, grx, nmsgs, resident, resp, persister, ident,
                   lastSnapshot, auth, outbox>>

-----------------------------------------------------------------------------
(* SpecAccess: requests with and without a session on a document of any
   visibility, whose clients change the visibility and edit *)

\* the documents the database may hold at the start
GateDocs ==
    {[text |-> A1, meta |-> [DefaultMeta EXCEPT !.visibility = v]] :
        v \in Visibilities}

InitAccess ==
    /\ InitDefault
    /\ InitFresh("request")
    /\ resident = FALSE
    /\ resp = None
    /\ persister = PersisterIdle
    /\ shutdown = ShutdownIdle
    /\ fails = 0
    /\ \/ store = NoFiles /\ lastStored = NeverStored
       \/ \E d \in GateDocs : store = Files(d) /\ lastStored = StoredOk(d)
    /\ InitPath

\* an Edit that appends "a" to the current text
AppendEdit ==
    Edit(Len(operations), InsertAt(SLen(text), A1, SLen(text)))

\* the messages of SpecAccess's clients
GateMsgs ==
    {SetVisibility(None, Some(v)) : v \in Visibilities}
    \cup {SetMeta(None, Some(TRUE)), AppendEdit}

RecvGate(c) ==
    /\ nmsgs < MaxGateMsgs
    /\ \E m \in GateMsgs : RecvClient(c, m)

\* the steps a connection's task takes on its own, the loop in whole passes
TaskStep(c) ==
    /\ \/ Attach(c, csession[c])
       \/ Turn(c)
       \/ SelectNotified(c)
       \/ SelectUpdate(c)
       \/ Close(c)
    /\ UNCHANGED regVars

\* the sockets: requests, connection tasks and client messages
NextSockets ==
    \E c \in LoopConns :
        \/ \E s \in Cookies : SocketHandler(c, s)
        \/ TaskStep(c)
        \/ RecvGate(c) /\ UNCHANGED regVars

NextAccess ==
    \/ NextSockets
    \/ \E s \in Cookies : TextHandler(s)

SpecAccess == InitAccess /\ [][NextAccess]_vars

\* the sockets under the runtime's scheduling: a task that can run is run
LiveAccess ==
    InitAccess /\ [][NextSockets]_vars /\ \A c \in LoopConns : WF_vars(TaskStep(c))

\* connection c's role is denied by the engine's visibility
Denied(c) == ~can_access(RoleOf(cuser[c]), meta.visibility)

\* connection c is shut out of the document as it stands: by its visibility,
\* or by `limited` unless it is an admin's
ShutOut(c) == Denied(c) \/ (meta.limited /\ RoleOf(cuser[c]) # "Admin")

\* C11: once a SetMeta has made the visibility stricter, every connection in
\* its loop whose role the document no longer admits is closed, unless the
\* document admits it again before its task has run; the SetMeta wakes
\* every connection that waits, and a connection leaves its loop only when
\* the document does not admit its role.
StricterVisibilityCloses ==
    /\ \A c \in LoopConns :
          (InLoop(c) /\ ShutOut(c)) ~> (pc[c] = "closed" \/ ~ShutOut(c))
    /\ [][\A c \in LoopConns :
            /\ (VisibilityRank(meta'.visibility) < VisibilityRank(meta.visibility)
                /\ pc[c] = "select" /\ armed[c] /\ pc'[c] = "select")
               => woken'[c]
            /\ (InLoop(c) /\ ~InLoop(c)') => ShutOut(c)]_vars

\* C11 witness: the visibility went from Public to Internal while an
\* anonymous connection and a user's connection were open; the anonymous
\* one is closed and the user's is still in its loop
StricterVisibilityWitness ==
    \E c, d \in LoopConns :
        /\ meta.visibility = "Internal"
        /\ RoleOf(cuser[c]) = "Anon"
        /\ pc[c] = "closed"
        /\ \E i \in DOMAIN sock[c] :
              sock[c][i].type = "Meta" /\ sock[c][i].visibility = "Public"
        /\ RoleOf(cuser[d]) = "User"
        /\ pc[d] = "select"

\* the visibility a request meets: the engine's when the registry holds the
\* document, the stored one when only the database does
GateVisibility ==
    IF resident THEN Some(meta.visibility)
    ELSE IF LoadDocument(store) # None
         THEN Some(LoadDocument(store)[1].meta.visibility)
         ELSE None

\* C12: in every reachable state, for every cookie, a socket open and a
\* text read are let through exactly when the role of the cookie's user can
\* access the visibility the request meets (Public: every role, Internal:
\* User and Admin, Private: Admin), and are answered 403 otherwise; and the
\* last response given is one of these answers.
GateFollowsCanAccess ==
    /\ \A s \in Cookies : \A v \in Visibilities :
          GateVisibility = Some(v) =>
             LET role == RoleOf(GetUser(s))
                 allowed == \/ v = "Public"
                            \/ v = "Internal" /\ role \in {"User", "Admin"}
                            \/ v = "Private" /\ role = "Admin"
             IN /\ SocketAllowed(s) <=> allowed
                /\ TextResponse(s).status = (IF allowed THEN 200 ELSE 403)
                /\ allowed => TextResponse(s).body = TextDocument[1].text
    /\ resp # None => resp[1].status \in {101, 200, 403}

\* C12 witness: the registry holds the document with a visibility stricter
\* than the stored one, and a text read by a user was answered 403 on the
\* engine's visibility
GateFollowsCanAccessWitness ==
    /\ resident
    /\ meta.visibility = "Private"
    /\ LoadDocument(store) # None
    /\ LoadDocument(store)[1].meta.visibility = "Internal"
    /\ resp = Some(Response("text", 403, <<>>, None))
    /\ TextResponse(Some("s1")).status = 403
    /\ TextResponse(Some("s2")).status = 200
    /\ ~SocketAllowed(Some("s1"))

\* C13: whenever a History message is sent to a connection, in its initial
\* replay or as catch-up, the engine's visibility at that moment admits the
\* connection's role.
HistoryOnlyWithAccess ==
    [][\A c \in LoopConns :
          Len(Histories(c))' > Len(Histories(c))
          => can_access(RoleOf(cuser'[c]), meta'.visibility)]_vars

-----------------------------------------------------------------------------
(* SpecPersist: one document id over its engines' lives.  Anonymous clients
   open sockets, edit, change the language and introduce themselves, while
   the persister stores and evicts the engine and, under SpecPersist, the
   server is shut down and main calls persist. *)

\* the document the database may hold at the start
PersistDoc == [text |-> A1, meta |-> DefaultMeta]

InitPersist ==
    /\ InitDefault
    /\ InitFresh("request")
    /\ resident = FALSE
    /\ resp = None
    /\ persister = PersisterIdle
    /\ shutdown = ShutdownIdle
    /\ fails = 0
    /\ \/ store = NoFiles /\ lastStored = NeverStored
       \/ store = Files(PersistDoc) /\ lastStored = StoredOk(PersistDoc)
    /\ InitPath

\* the messages of SpecPersist's clients
PersistMsgs ==
    {AppendEdit, SetMeta(Some("rust"), None),
     ClientInfo([name |-> "alice", hue |-> 7, admin |-> FALSE])}

RecvPersist(c) ==
    /\ nmsgs < MaxPersistMsgs
    /\ \E m \in PersistMsgs : RecvClient(c, m)

\* the persister task's steps
PersisterStep ==
    \/ PersisterWalk
    \/ PersisterStore
    \/ PersisterEvict

\* the server while it runs: requests are accepted until the shutdown
\* signal, the tasks run until main returns
NextLife ==
    /\ shutdown.pc # "done"
    /\ \/ \E c \in LoopConns :
             \/ shutdown.pc = "running" /\ SocketHandler(c, None)
             \/ TaskStep(c)
             \/ RecvPersist(c) /\ UNCHANGED regVars
       \/ PersisterStep

NextPersist ==
    \/ NextLife
    \/ PersistSnapshot
    \/ PersistStore

SpecPersist == InitPersist /\ [][NextPersist]_vars

\* the running server under the runtime's scheduling
LivePersist ==
    /\ InitPersist
    /\ [][NextLife]_vars
    /\ \A c \in LoopConns : WF_vars(TaskStep(c))

\* C14: once the engine is killed, every connection still in its loop
\* leaves it and reaches the end of its close path; the kill wakes the
\* connections that wait in the select, and a pass of the loop that starts
\* on a killed engine ends in the close path.
KilledConnectionsClose ==
    /\ \A c \in LoopConns : (killed /\ InLoop(c)) ~> (pc[c] = "closed")
    /\ [][\A c \in LoopConns :
            /\ (~killed /\ killed' /\ pc[c] = "select" /\ armed[c]) => woken'[c]
            /\ (killed /\ pc[c] = "top" /\ pc'[c] # "top") => pc'[c] = "closing"]_vars

\* a connection that waited in the select of a killed engine has closed
KilledConnectionsCloseWitness ==
    \E c \in LoopConns : killed /\ ~resident /\ pc[c] = "closed" /\ count > 0

\* the database holds the engine's text and meta: an engine taken in from
\* it now would start with them
Saved == Hydrated.text = text /\ Hydrated.meta = meta

\* a snapshot of the engine's present state is waiting to be stored
SnapshotInHand ==
    \/ persister.snap = Some(Snapshot)
    \/ shutdown.snap = Some(Snapshot)

\* C15: after a store_document that returned Err the document's state is
\* stored again without a further mutation, so an engine whose state the
\* database lacks is dirty or has its snapshot on the way to the database,
\* and it is neither killed nor out of the registry
FailedStoreIsRetried ==
    (fails > 0 /\ ~Saved) =>
        /\ resident /\ ~killed
        /\ dirty \/ SnapshotInHand

\* C16: whenever the persister has removed an engine from the registry,
\* every Edit and SetMeta it accepted, before the removal or racing with
\* it, is in the database: with no store_document failed, the database
\* holds the engine's text and meta
EvictionLosesNothing ==
    (killed /\ ~resident /\ fails = 0) => Saved

\* C17: once persist has returned with no store_document failed, the
\* database holds, for the resident document, the text and meta the engine
\* had when the traversal reached it (compared while the engine still has
\* them), whatever the persister was holding at that time
ShutdownStoresEverything ==
    (/\ shutdown.pc = "done" /\ ~shutdown.err /\ fails = 0
     /\ resident /\ shutdown.seen = Some(Snapshot))
    => Saved

\* the log of an engine hydrated from `document`: one operation, carrying
\* the sentinel id, that inserts the document's text
SentinelLog(document) ==
    <<[id |-> SentinelId,
       operation |-> IF document.text = <<>> THEN EmptyOp
                     ELSE [ops |-> <<Insert(document.text)>>, base_len |-> 0,
                           target_len |-> SLen(document.text)]]>>

\* C18: load_document returns the document last handed to store_document
\* (the last that returned Ok, or the last of all) and fails if none was;
\* an engine hydrated from a document and not yet connected to has exactly
\* the sentinel log, revision 1, dirty false and the document's text and
\* meta; the first socket on it is sent History {start 0, [sentinel insert]}
\* and the text read returns the stored text
PersistenceRoundTrip ==
    LET document == LoadDocument(store) IN
    /\ document \in {lastStored.ok, lastStored.tried}
    /\ (document # None /\ resident /\ count = 0) =>
          /\ operations = SentinelLog(document[1])
          /\ Len(operations) = 1
          /\ ~dirty
          /\ text = document[1].text
          /\ meta = document[1].meta
    /\ (sock[0] # <<>> /\ operations # <<>> /\ operations[1].id = SentinelId) =>
          /\ Len(sock[0]) >= 3
          /\ sock[0][3] = MsgHistory(0, SentinelLog([text |-> Apply(operations[1].operation, <<>>).text,
                                                     meta |-> meta]))
    /\ (document # None /\ (~resident \/ count = 0)) =>
          /\ TextResponse(None).status = 200
          /\ TextResponse(None).body = document[1].text

-----------------------------------------------------------------------------
(* SpecReplay: connections open on an engine that already has a log, users
   and cursors, with on_connection in its separate steps. *)

\* the messages of SpecReplay's clients
ReplayMsgs ==
    {AppendEdit,
     ClientInfo([name |-> "alice", hue |-> 7, admin |-> FALSE]),
     CursorData([cursors |-> <<0>>, selections |-> <<<<0, 0>>>>])}

RecvReplay(c) ==
    /\ nmsgs < MaxReplayMsgs
    /\ \E m \in ReplayMsgs : RecvClient(c, m)

NextReplay ==
    (\E c \in LoopConns :
        \/ Open(c, None)
        \/ SendInitial(c)
        \/ Turn(c)
        \/ SelectNotified(c)
        \/ SelectUpdate(c)
        \/ RecvReplay(c)
        \/ ClientClose(c)
        \/ Close(c)) /\ UNCHANGED regVars

SpecReplay == Init /\ [][NextReplay]_vars

\* `seq` is what a new connection is to be sent after its Identity on an
\* engine with log `ops`, users `us` and cursors `cs`: Meta, one History
\* from 0 iff the log is non-empty, a UserInfo for each user and then a
\* UserCursor for each cursor
IsReplay(seq, m, ops, us, cs) ==
    LET h == IF ops # <<>> THEN 1 ELSE 0
        nu == Cardinality(DOMAIN us)
        nc == Cardinality(DOMAIN cs)
    IN /\ Len(seq) = 1 + h + nu + nc
       /\ seq[1] = MsgMeta(m)
       /\ h = 1 => seq[2] = MsgHistory(0, ops)
       /\ \A u \in DOMAIN us :
             \E i \in 2 + h .. 1 + h + nu : seq[i] = MsgUserInfo(u, Some(us[u]))
       /\ \A u \in DOMAIN cs :
             \E i \in 2 + h + nu .. 1 + h + nu + nc : seq[i] = MsgUserCursor(u, cs[u])

\* C19: the first message on a connection is the Identity with its id, and
\* the step that brings it to the loop has sent, right after the Identity
\* and before anything else, Meta, the History from 0 iff the log is
\* non-empty, one UserInfo per user and one UserCursor per cursor, in this
\* order; nothing is sent on a connection before
ReplayComesFirst ==
    [][\A c \in LoopConns :
          /\ pc[c] = "idle" => sock[c] = <<>>
          /\ (pc[c] = "idle" /\ pc'[c] # "idle") =>
                /\ sock'[c] # <<>>
                /\ sock'[c][1].type = "Identity"
                /\ sock'[c][1].id = c
          /\ pc'[c] = "initial" => Len(sock'[c]) = 1
          /\ (pc[c] \in {"idle", "initial"} /\ pc'[c] = "top") =>
                /\ sock'[c][1].type = "Identity" /\ sock'[c][1].id = c
                /\ IsReplay(Tail(sock'[c]), meta, operations, users, cursors)]_vars

\* a connection at the top of its loop was sent a History, a UserInfo and
\* a UserCursor in its replay and nothing else since
ReplayComesFirstWitness ==
    \E c \in LoopConns :
        /\ pc[c] = "top"
        /\ Len(sock[c]) = 5
        /\ sock[c][3].type = "History"
        /\ sock[c][4].type = "UserInfo"
        /\ sock[c][5].type = "UserCursor"
        /\ rev[c] = Len(operations)

\* the connections opened on the engine so far, closed ones included
Opened == {c \in Conns : pc[c] # "idle"}

\* C20: the ids come from a counter that starts at 0 and counts the
\* connections opened: each opened connection was sent an Identity with an
\* id below the counter, no two with the same id, whether or not they have
\* disconnected since; and the connection opened after k - 1 others is
\* given id k - 1, an id no earlier connection has
IdsFromCounter ==
    /\ [](/\ count = Cardinality(Opened)
          /\ \A c \in Opened :
                /\ sock[c] # <<>>
                /\ sock[c][1].type = "Identity"
                /\ sock[c][1].id \in 0 .. count - 1
          /\ \A c, d \in Opened : c # d => sock[c][1].id # sock[d][1].id)
    /\ [][\A c \in Conns :
            (c \notin Opened /\ c \in Opened') =>
                /\ sock'[c][1].id = Cardinality(Opened)
                /\ \A d \in Opened : sock'[d][1].id # sock'[c][1].id]_vars

\* a connection was opened after another one had disconnected
IdsFromCounterWitness ==
    \E c, d \in Opened :
        /\ pc[d] = "closed"
        /\ pc[c] \in {"top", "select"}
        /\ sock[d][1].id = 0
        /\ sock[c][1].id = 1

-----------------------------------------------------------------------------
(* SpecLeave: connections introduce themselves, place cursors and leave:
   the client goes, sends a message that does not parse, or the document
   is limited under it; others join before and after. *)

\* the messages of SpecLeave's clients
LeaveMsgs ==
    {ClientInfo([name |-> "alice", hue |-> 7, admin |-> FALSE]),
     CursorData([cursors |-> <<0>>, selections |-> <<<<0, 0>>>>]),
     SetMeta(None, Some(TRUE)),
     Invalid}

RecvLeave(c) ==
    /\ nmsgs < MaxLeaveMsgs
    /\ \E m \in LeaveMsgs : RecvClient(c, m)

NextLeave ==
    (\E c \in LoopConns :
        \/ Open(c, None)
        \/ SendInitial(c)
        \/ Turn(c)
        \/ SelectNotified(c)
        \/ SelectUpdate(c)
        \/ RecvLeave(c)
        \/ ClientClose(c)
        \/ Close(c)) /\ UNCHANGED regVars

SpecLeave == Init /\ [][NextLeave]_vars

\* the messages of `seq` that tell of connection id's user or cursor
Presence(seq, id) ==
    SelectSeq(seq, LAMBDA m : /\ m.type \in {"UserInfo", "UserCursor"}
                              /\ m.id = id
                              /\ (m.type = "UserInfo" => m.info # None))

-----------------------------------------------------------------------------
(* SpecWire: the text frames clients send, by the variant they name and the
   fields they carry, and their deserialization into ClientMsg. *)

\* the variants of ClientMsg
KnownVariants == {"Edit", "SetMeta", "ClientInfo", "CursorData"}

\* the fields a frame naming variant v may carry here; "Ping" is a variant
\* ClientMsg does not have
FrameFields(v) ==
    CASE v = "Edit" -> {"revision", "operation"}
      [] v = "SetMeta" -> {"language", "limited"}
      [] v = "ClientInfo" -> {"name", "hue", "admin"}
      [] v = "CursorData" -> {"cursors", "selections"}
      [] v = "Ping" -> {}

\* the frames of SpecWire's clients
Frames ==
    UNION {{[variant |-> v, fields |-> f] : f \in SUBSET FrameFields(v)} :
              v \in KnownVariants \cup {"Ping"}}

\* the fields serde demands: those that are neither an Option nor marked
\* #[serde(default)]
SerdeRequired(v) ==
    CASE v = "Edit" -> {"revision", "operation"}
      [] v = "SetMeta" -> {}
      [] v = "ClientInfo" -> {"name", "hue"}
      [] v = "CursorData" -> {"cursors", "selections"}

\* the message a well-formed frame carries
FrameMsg(frame) ==
    CASE frame.variant = "Edit" -> AppendEdit
      [] frame.variant = "SetMeta" ->
           SetMeta(IF "language" \in frame.fields THEN Some("rust") ELSE None,
                   IF "limited" \in frame.fields THEN Some(FALSE) ELSE None)
      [] frame.variant = "ClientInfo" ->
           ClientInfo([name |-> "alice", hue |-> 7,
                       admin |-> "admin" \in frame.fields])
      [] frame.variant = "CursorData" ->
           CursorData([cursors |-> <<0>>, selections |-> <<<<0, 0>>>>])

\* a deserialization that fills in what a frame of a known variant lacks
DeserializeLenient(frame) ==
    IF frame.variant \notin KnownVariants THEN Invalid ELSE FrameMsg(frame)

\* serde_json::from_str::<ClientMsg>: Err for a variant ClientMsg does not
\* have and for a missing field that is required
Deserialize(frame) ==
    IF frame.variant \notin KnownVariants THEN Invalid
    ELSE IF ~(SerdeRequired(frame.variant) \subseteq frame.fields) THEN Invalid
    ELSE FrameMsg(frame)

RecvFrame(c) ==
    /\ nmsgs < MaxWireMsgs
    /\ \E frame \in Frames : RecvClient(c, Deserialize(frame))

NextWire ==
    (\E c \in LoopConns :
        \/ Attach(c, None)
        \/ Turn(c)
        \/ SelectNotified(c)
        \/ SelectUpdate(c)
        \/ RecvFrame(c)
        \/ Close(c)) /\ UNCHANGED regVars

SpecWire == Init /\ [][NextWire]_vars

\* the wire protocol's table: a frame is malformed when it names no
\* ClientMsg variant or lacks a field its variant requires
Malformed(frame) ==
    \/ frame.variant \notin {"Edit", "SetMeta", "ClientInfo", "CursorData"}
    \/ frame.variant = "Edit" /\ ~({"revision", "operation"} \subseteq frame.fields)
    \/ frame.variant = "ClientInfo" /\ ~({"name", "hue"} \subseteq frame.fields)
    \/ frame.variant = "CursorData" /\ ~({"cursors", "selections"} \subseteq frame.fields)

\* C22: a malformed frame is refused with the engine's State as it was and
\* nothing broadcast, and the connection that sent it goes to its close
\* path with the log, the text and the meta unchanged
MalformedCloses ==
    /\ [](\A c \in LoopConns, frame \in Frames :
             Malformed(frame) =>
                LET r == HandleMessage(State, c, Deserialize(frame), cuser[c]) IN
                /\ r.err = "parse"
                /\ r.st = State
                /\ r.send = <<>>
                /\ ~r.notify)
    /\ [][\A c \in LoopConns :
             (err[c] = "" /\ err'[c] = "parse") =>
                /\ pc'[c] = "closing"
                /\ UNCHANGED <<operations, text, meta, users, cursors, dirty>>]_vars

\* a connection was closed for a frame that did not parse, on a document
\* that had been edited
MalformedClosesWitness ==
    \E c \in LoopConns :
        /\ err[c] = "parse"
        /\ pc[c] = "closed"
        /\ operations # <<>>

-----------------------------------------------------------------------------
(* SpecLag: one client keeps moving its cursor while the connections read
   their broadcast receivers or leave them unread. *)

\* connection 0 receives a CursorData
RecvCursor ==
    /\ nmsgs < MaxLagMsgs
    /\ RecvClient(0, CursorData([cursors |-> <<0>>, selections |-> <<>>]))

NextLag ==
    \/ (\E c \in LoopConns :
           \/ Attach(c, None)
           \/ Turn(c)
           \/ SelectUpdate(c)
           \/ Close(c)) /\ UNCHANGED regVars
    \/ RecvCursor /\ UNCHANGED regVars

SpecLag == Init /\ [][NextLag]_vars

\* C23: a receiver that holds 16 unread messages when another is broadcast
\* has overflowed; from then on the connection is sent no broadcast
\* message, and its next broadcast receive ends its loop with the error
OverflowIsFatal ==
    [][\A c \in LoopConns :
          /\ (/\ Subscribed(c) /\ Len(rx[c]) = 16
              /\ nmsgs' > nmsgs) => lagged'[c]
          /\ (lagged[c] /\ Len(sock'[c]) > Len(sock[c])) =>
                sock'[c][Len(sock'[c])].type = "History"
          /\ (lagged[c] /\ pc[c] = "select" /\ pc'[c] # "select" /\ nmsgs' = nmsgs) =>
                /\ pc'[c] = "closing"
                /\ err'[c] = "lagged"
                /\ sock'[c] = sock[c]
          /\ lagged[c] => lagged'[c]]_vars

\* a connection that did not read its receiver was closed for the overflow
\* while the other had read every message
OverflowIsFatalWitness ==
    \E c, d \in LoopConns :
        /\ err[c] = "lagged"
        /\ pc[c] = "closed"
        /\ ~lagged[d]
        /\ Len(sock[d]) >= 17

\* C24: the receivers of the engine's broadcast channel hold only Meta,
\* UserInfo and UserCursor messages (a disconnect is a UserInfo without
\* info), and a History reaches a socket only from the log, in a step that
\* takes nothing out of the connection's receiver
NoHistoryBroadcast ==
    /\ [](\A c \in Conns : \A i \in DOMAIN rx[c] :
             rx[c][i].type \in {"Meta", "UserInfo", "UserCursor"})
    /\ [][\A c \in LoopConns :
             Len(Histories(c))' > Len(Histories(c)) =>
                /\ rx'[c] = rx[c]
                /\ Len(Histories(c))' = Len(Histories(c)) + 1
                /\ \E h \in {sock'[c][i] : i \in DOMAIN sock'[c]} :
                      /\ h.type = "History"
                      /\ h.start = rev[c]
                      /\ h.operations = SubSeq(operations, h.start + 1, Len(operations))]_vars

\* a connection has been sent a catch-up History for an edit of the other
\* while broadcast messages waited in its receiver
NoHistoryBroadcastWitness ==
    \E c \in LoopConns :
        /\ rx[c] # <<>>
        /\ Len(Histories(c)) > 0
        /\ Histories(c)[Len(Histories(c))].start > 0

-----------------------------------------------------------------------------
(* SpecCursor: clients place cursors and selections and edit around them,
   at the current revision and at earlier ones. *)

\* the CursorData clients send: one cursor and one selection
CursorDatas ==
    {[cursors |-> <<d[1]>>, selections |-> <<<<d[1], d[2]>>>>] :
        d \in {e \in (0 .. MaxPos) \X (0 .. MaxPos) : e[2] \in {e[1], MaxPos}}}

\* the operations SpecCursor's clients send against a text of l characters
CursorOps(l) ==
    {InsertAt(p, A1, l) : p \in Positions(l)}
    \cup {DeleteAt(d[1], d[2], l) :
             d \in {e \in (0 .. MaxPos) \X (1 .. 2) : e[1] + e[2] <= l}}

CursorMsgs ==
    {CursorData(d) : d \in CursorDatas}
    \cup UNION {{Edit(r, o) : o \in CursorOps(LenAt(r))} : r \in 0 .. Len(operations)}

RecvCursorMsg(c) ==
    /\ nmsgs < MaxCursorMsgs
    /\ \E m \in CursorMsgs : RecvClient(c, m)

NextCursor ==
    (\E c \in LoopConns :
        \/ Attach(c, None)
        \/ Turn(c)
        \/ SelectNotified(c)
        \/ RecvCursorMsg(c)) /\ UNCHANGED regVars

SpecCursor == Init /\ [][NextCursor]_vars

\* where position i of the old text is after the components `ops`, the
\* first of which starts at position `at` of the old text: an insertion at
\* or before i moves it right by the characters inserted, a deletion that
\* ends at or before i moves it left by the characters deleted, a deletion
\* that spans i moves it to the deletion's left edge
RECURSIVE PositionShift(_, _, _)
PositionShift(ops, at, i) ==
    IF ops = <<>> THEN 0
    ELSE LET x == Head(ops) IN
         CASE x.k = "retain" -> PositionShift(Tail(ops), at + x.n, i)
           [] x.k = "insert" ->
                (IF at <= i THEN SLen(x.s) ELSE 0) + PositionShift(Tail(ops), at, i)
           [] x.k = "delete" ->
                (IF at + x.n <= i THEN 0 - x.n
                 ELSE IF at <= i THEN 0 - (i - at)
                 ELSE 0) + PositionShift(Tail(ops), at + x.n, i)

PositionAfter(operation, i) == i + PositionShift(operation.ops, 0, i)

\* C25: a step that logs an operation replaces every stored cursor and both
\* ends of every stored selection, of every connection, by its position
\* after the logged (transformed) operation: moved right by the characters
\* inserted at or before it, left by those deleted before it, and to the
\* left edge of a deletion that spans it; a connection that joins is
\* replayed the cursors as they then are
CursorsFollowEdits ==
    [][/\ Len(operations') = Len(operations) + 1 =>
             LET o == operations'[Len(operations')].operation IN
             /\ DOMAIN cursors' = DOMAIN cursors
             /\ \A k \in DOMAIN cursors :
                   /\ Len(cursors'[k].cursors) = Len(cursors[k].cursors)
                   /\ Len(cursors'[k].selections) = Len(cursors[k].selections)
                   /\ \A i \in DOMAIN cursors[k].cursors :
                         cursors'[k].cursors[i] = PositionAfter(o, cursors[k].cursors[i])
                   /\ \A i \in DOMAIN cursors[k].selections :
                         /\ cursors'[k].selections[i][1]
                               = PositionAfter(o, cursors[k].selections[i][1])
                         /\ cursors'[k].selections[i][2]
                               = PositionAfter(o, cursors[k].selections[i][2])
       /\ \A d \in LoopConns :
             (pc[d] = "idle" /\ pc'[d] = "top") =>
                \A k \in DOMAIN cursors :
                   \E j \in DOMAIN sock'[d] : sock'[d][j] = MsgUserCursor(k, cursors[k])]_vars

\* a selection that an edit sent at an earlier revision has moved, replayed
\* to a connection that joined afterwards
CursorsFollowEditsWitness ==
    /\ 0 \in DOMAIN cursors
    /\ cursors[0].selections[1] = <<1, 3>>
    /\ Len(operations) = 2
    /\ pc[1] = "top"
    /\ \E j \in DOMAIN sock[1] : sock[1][j] = MsgUserCursor(0, cursors[0])

-----------------------------------------------------------------------------
(* SpecMeta: clients, anonymous or the admin, set the language, the limit
   and the visibility in every combination of present and absent fields,
   on a document that also has users and cursors. *)

\* every SetMeta with a language, a limit and a visibility present or absent
SetMetas ==
    {[type |-> "SetMeta", language |-> l, limited |-> b, visibility |-> v] :
        l \in {None, Some("rust")},
        b \in {None, Some(TRUE), Some(FALSE)},
        v \in {None, Some("Internal"), Some("Public")}}

\* the messages of SpecMeta's clients
MetaMsgs ==
    SetMetas
    \cup {ClientInfo([name |-> "alice", hue |-> 7, admin |-> FALSE]),
          CursorData([cursors |-> <<0>>, selections |-> <<>>])}

RecvMeta(c) ==
    /\ nmsgs < MaxMetaMsgs
    /\ \E m \in MetaMsgs : RecvClient(c, m)

NextMeta ==
    (\E c \in LoopConns :
        \/ \E s \in {None, Some("s2")} : Attach(c, s)
        \/ Turn(c)
        \/ SelectNotified(c)
        \/ SelectUpdate(c)
        \/ RecvMeta(c)
        \/ Close(c)) /\ UNCHANGED regVars

SpecMeta == Init /\ [][NextMeta]_vars

\* the field after a SetMeta that carries `sent` for it
Overwritten(old, sent) == IF sent = None THEN old ELSE sent[1]

\* C26: a SetMeta is admitted; language, limit and visibility are each
\* overwritten when present and kept when absent; the log, the text, users
\* and cursors stay; dirty is set; one Meta with the resulting values is
\* broadcast, and the step that broadcasts a Meta queues it for every
\* subscribed connection, the sender included, and changes no revision; a
\* connection opened later is sent the values in the Meta of its replay
SetMetaFrame ==
    /\ [](\A c \in LoopConns, m \in SetMetas :
             LET r == HandleMessage(State, c, m, cuser[c]) IN
             /\ r.err = ""
             /\ r.st.meta.language = Overwritten(meta.language, m.language)
             /\ r.st.meta.limited = Overwritten(meta.limited, m.limited)
             /\ r.st.meta.visibility = Overwritten(meta.visibility, m.visibility)
             /\ r.st.operations = operations
             /\ r.st.text = text
             /\ r.st.users = users
             /\ r.st.cursors = cursors
             /\ r.st.dirty
             /\ r.send = <<[type |-> "Meta", language |-> r.st.meta.language,
                            limited |-> r.st.meta.limited,
                            visibility |-> r.st.meta.visibility]>>)
    /\ [][/\ (\E d \in Conns : /\ Len(rx'[d]) = Len(rx[d]) + 1
                               /\ rx'[d][Len(rx'[d])].type = "Meta") =>
                /\ \A d \in Conns :
                      Subscribed(d) =>
                         \/ lagged'[d]
                         \/ rx'[d] = Append(rx[d], MsgMeta(meta'))
                /\ \E d \in LoopConns : pc[d] = "select" /\ Subscribed(d) /\ pc'[d] # "select"
                /\ dirty'
                /\ UNCHANGED <<operations, text, users, cursors, rev>>
          /\ \A d \in LoopConns :
                (pc[d] = "idle" /\ pc'[d] = "top") => sock'[d][2] = MsgMeta(meta)]_vars

\* a connection opened after a SetMeta that carried only a language, on a
\* document whose visibility an earlier SetMeta had set, and was sent both
SetMetaFrameWitness ==
    /\ meta.language = "rust"
    /\ meta.visibility = "Internal"
    /\ ~meta.limited
    /\ pc[1] = "top"
    /\ sock[1][2] = MsgMeta(meta)
    /\ \E i \in DOMAIN sock[0] :
          /\ sock[0][i].type = "Meta"
          /\ sock[0][i].language = "markdown"
          /\ sock[0][i].visibility = "Internal"

-----------------------------------------------------------------------------
(* SpecIdent: Identifier::from_str on strings around the limits: empty, one
   byte, MAX_LEN bytes and more, with allowed chars, with '/', NUL and a
   two-byte char *)

\* 'a', 'Z', '7', '-', '_', ' ', then '/', U+00E9 and NUL
PathChars == {97, 90, 55, 45, 95, 32, 47, 233, 0}

Repeat(c, n) == [i \in 1 .. n |-> c]

PathStrings ==
    {p \o Repeat(98, n) :
        p \in UNION {[1 .. k -> PathChars] : k \in 0 .. MaxPrefix},
        n \in {0, 1} \cup (MAX_LEN - 2 .. MAX_LEN + MaxOver)}

InitIdent ==
    /\ InitDefault /\ store = NoFiles /\ lastStored = NeverStored
    /\ InitRest
    /\ InitRegistry
    /\ \E a \in PathStrings, b \in PathStrings : ident = Parsed(a, b, None, None)

\* s.parse::<Identifier>() of the first string
ParseFirst ==
    /\ ident.ra = None
    /\ ident' = [ident EXCEPT !.ra = Some(from_str(ident.a))]
    /\ UNCHANGED <<operations, text, meta, users, cursors, dirty, count, killed,
                   pc, cuser, rev, armed, woken, sock, rx, lagged, err, inflight,
                   sessions, csession, grx, nmsgs,
                   store, resident, resp, persister, shutdown, fails, lastStored,
                   lastSnapshot, auth, outbox>>

\* s.parse::<Identifier>() of the second string
ParseSecond ==
    /\ ident.rb = None
    /\ ident' = [ident EXCEPT !.rb = Some(from_str(ident.b))]
    /\ UNCHANGED <<operations, text, meta, users, cursors, dirty, count, killed,
                   pc, cuser, rev, armed, woken, sock, rx, lagged, err, inflight,
                   sessions, csession, grx, nmsgs,
                   store, resident, resp, persister, shutdown, fails, lastStored,
                   lastSnapshot, auth, outbox>>

NextIdent == ParseFirst \/ ParseSecond

SpecIdent == InitIdent /\ [][NextIdent]_vars

\* the length of a string in bytes
RECURSIVE ByteLen(_)
ByteLen(s) ==
    IF s = <<>> THEN 0 ELSE (IF Head(s) < 128 THEN 1 ELSE 2) + ByteLen(Tail(s))

\* ASCII alphanumeric, '-', '_' or space
Permitted(c) ==
    c \in (48 .. 57) \cup (65 .. 90) \cup (97 .. 122) \cup {45, 95, 32}

\* 1 to 64 bytes, every character permitted
WellFormed(s) ==
    /\ ByteLen(s) \in 1 .. 64
    /\ \A i \in 1 .. Len(s) : Permitted(s[i])

\* C27: a string is accepted by Identifier parsing exactly when it is 1 to 64
\* bytes long and every character is ASCII alphanumeric, '-', '_' or space
\* (the empty string, longer strings and strings with another character are
\* rejected), and two accepted strings yield equal identifiers exactly when
\* the strings are equal.
IdentifierParsing ==
    /\ ident.ra # None => (ident.ra[1].ok <=> WellFormed(ident.a))
    /\ ident.rb # None => (ident.rb[1].ok <=> WellFormed(ident.b))
    /\ (ident.ra # None /\ ident.rb # None /\ ident.ra[1].ok /\ ident.rb[1].ok) =>
           ((ident.ra[1] = ident.rb[1]) <=> (ident.a = ident.b))

-----------------------------------------------------------------------------
(* kill_if_idle, as the persister calls it under SpecPersist *)

\* C28: kill_if_idle marks the engine killed and returns true (the persister
\* then removes the entry) exactly when users is empty and dirty is false at
\* the instant it holds the lock; otherwise it returns false and killed is
\* unchanged; the State is the same before the check and after the kill.
KillIfIdleIsExact ==
    [][(persister.pc = "evict" /\ persister'.pc # "evict" /\ resident) =>
          /\ (DOMAIN users = {} /\ ~dirty) => (killed' /\ ~resident')
          /\ ~(DOMAIN users = {} /\ ~dirty) => (killed' = killed /\ resident')
          /\ UNCHANGED <<operations, text, meta, users, cursors, dirty>>]_vars

\* kill_if_idle has returned true for an engine that had been edited and
\* stored, and false for none: the engine is killed and out of the registry
KillIfIdleIsExactWitness ==
    /\ killed /\ ~resident
    /\ persister.pc = "walk"
    /\ Len(operations) > 1
    /\ DOMAIN users = {} /\ ~dirty

-----------------------------------------------------------------------------
(* dirty_snapshot, as the persister and ServerState::persist call it under
   SpecPersist *)

\* C29: dirty_snapshot returns a snapshot exactly when dirty is set, of the
\* text and meta it reads in the critical section in which it clears dirty;
\* so whenever dirty is false the engine's text and meta are those of the
\* snapshot dirty_snapshot last returned, or of the document the engine was
\* constructed from.
DirtySnapshotIsAtomic ==
    /\ [](~dirty => (text = lastSnapshot.text /\ meta = lastSnapshot.meta))
    /\ [][
          /\ (persister.pc = "walk" /\ persister'.pc # "walk") =>
                /\ (persister'.snap # None) <=> dirty
                /\ dirty => (persister'.snap = Some([text |-> text, meta |-> meta]))
                /\ ~dirty' /\ text' = text /\ meta' = meta
          /\ (shutdown.pc = "running" /\ shutdown'.pc # "running" /\ resident) =>
                /\ (shutdown'.snap # None) <=> dirty
                /\ dirty => (shutdown'.snap = Some([text |-> text, meta |-> meta]))
                /\ ~dirty' /\ text' = text /\ meta' = meta
       ]_vars

\* the persister holds the snapshot dirty_snapshot returned of an engine whose
\* text and language were changed, and the engine is clean
DirtySnapshotIsAtomicWitness ==
    /\ ~dirty
    /\ SLen(text) > 1
    /\ meta.language = "rust"
    /\ persister.snap = Some([text |-> text, meta |-> meta])
    /\ lastSnapshot = [text |-> text, meta |-> meta]

-----------------------------------------------------------------------------
(* The registry and its engines under SpecPersist: socket_handler and the
   persister's eviction both work on the identifier's entry of the map *)

\* C30: an identifier has at most one engine that is not killed: the engine
\* of the registry's entry is not killed and every engine taken out of the
\* registry is, for good; an open that finds the entry attaches to its
\* engine and leaves it as it is, and an open that finds none, the entry
\* evicted or never made, gets an engine freshly built from the store.
OneLiveEngine ==
    /\ [](resident => ~killed)
    /\ []((~resident /\ \E c \in Conns : pc[c] # "request") => killed)
    /\ [][
          /\ (resident /\ ~resident') => killed'
          /\ (killed /\ ~killed') => (~resident /\ resident')
          /\ \A c \in Conns :
                (pc[c] = "request" /\ pc'[c] # "request") =>
                   IF resident
                   THEN /\ ~killed /\ resident'
                        /\ UNCHANGED <<operations, text, meta, users, cursors,
                                       dirty, count, killed>>
                   ELSE /\ resident' /\ ~killed' /\ ~dirty'
                        /\ count' = 0 /\ users' = EmptyMap /\ cursors' = EmptyMap
                        /\ LET document == LoadDocument(store)
                           IN IF document # None
                              THEN /\ text' = document[1].text
                                   /\ meta' = document[1].meta
                              ELSE /\ text' = <<>>
                                   /\ meta' = DefaultMeta
       ]_vars

\* two opens have attached to one engine, which was built from a document
\* that an earlier engine of the identifier had stored before its eviction
OneLiveEngineWitness ==
    /\ resident /\ ~killed
    /\ count = 0
    /\ meta.language = "rust"
    /\ operations = <<>> \/ (Len(operations) = 1 /\ operations[1].id = SentinelId)
    /\ store.meta = Some(meta)
    /\ \E c \in Conns, d \in Conns : c # d /\ pc[c] = "idle" /\ pc[d] = "idle"

-----------------------------------------------------------------------------
(* SpecPark: SpecPersist's server without the shutdown, with the end of the
   persister's loop: `while documents.is_empty()` and the wait on
   notify_persister *)

\* persister: documents.is_empty() returned true; the Notified future is
\* not created yet
PersisterEmptyCheck ==
    /\ persister.pc = "walk"
    /\ ~resident
    /\ persister' = [pc |-> "prepark", snap |-> None]
    /\ UNCHANGED <<operations, text, meta, users, cursors, dirty, count, killed,
                   pc, cuser, rev, armed, woken, sock, rx, lagged, err, inflight,
                   sessions, csession, grx, nmsgs,
                   store, resident, resp, shutdown, fails, lastStored, ident,
                   lastSnapshot, auth, outbox>>

\* persister: notify_persister.notified() is created and awaited
PersisterPark ==
    /\ persister.pc = "prepark"
    /\ persister' = [pc |-> "parked", snap |-> None]
    /\ UNCHANGED <<operations, text, meta, users, cursors, dirty, count, killed,
                   pc, cuser, rev, armed, woken, sock, rx, lagged, err, inflight,
                   sessions, csession, grx, nmsgs,
                   store, resident, resp, shutdown, fails, lastStored, ident,
                   lastSnapshot, auth, outbox>>

NextPark ==
    \/ \E c \in LoopConns :
          \/ SocketHandler(c, None)
          \/ TaskStep(c)
          \/ RecvPersist(c) /\ UNCHANGED regVars
    \/ PersisterStep
    \/ PersisterEmptyCheck
    \/ PersisterPark

SpecPark == InitPersist /\ [][NextPark]_vars

\* C31: the persister never stays parked while the registry is non-empty: a
\* document hydrated into the empty registry, wherever the persister is
\* between its emptiness test and its wait, finds the persister awake or
\* wakes it, so that its next pass covers the document.
PersisterNeverParkedBesideDocument ==
    ~(resident /\ persister.pc = "parked")

-----------------------------------------------------------------------------
(* SpecAuth: UserSessions::get_user called from several threads, for sessions
   that are logged in, past their expiry, logging in, or unknown.  The
   sessions are a DashMap: `get` returns a guard that holds the read lock of
   the entry's shard until it is dropped, `remove` takes the write lock of the
   shard, which it gets once no guard is out *)

AuthCookies == SessionIds \cup {LoggingInSession, UnknownSession}

\* the map has an entry for cookie s
HasEntry(s) == (s \in SessionIds /\ sessions[s] # None) \/ s \in auth.logging

\* Instant::now() passes the expires_at of a LoggedIn session
Expire(s) ==
    /\ s \in SessionIds
    /\ sessions[s] # None
    /\ s \notin auth.expired
    /\ auth' = [auth EXCEPT !.expired = @ \cup {s}]
    /\ UNCHANGED <<operations, text, meta, users, cursors, dirty, count, killed,
                   pc, cuser, rev, armed, woken, sock, rx, lagged, err, inflight,
                   sessions, csession, grx, nmsgs,
                   store, resident, resp, persister, shutdown, fails, lastStored,
                   ident, lastSnapshot, outbox>>

\* get_user: `self.sessions.get(session)?`: None without an entry, else the
\* guard `login_state` is held from here to the end of the function
GetUserGet(t, s) ==
    /\ auth.call[t].pc \in {"idle", "done"}
    /\ auth' = IF HasEntry(s)
               THEN [auth EXCEPT !.readers = @ \cup {t},
                                 !.call[t] = [pc |-> "held", session |-> Some(s),
                                              ret |-> None]]
               ELSE [auth EXCEPT !.call[t] = [pc |-> "done", session |-> Some(s),
                                              ret |-> None]]
    /\ UNCHANGED <<operations, text, meta, users, cursors, dirty, count, killed,
                   pc, cuser, rev, armed, woken, sock, rx, lagged, err, inflight,
                   sessions, csession, grx, nmsgs,
                   store, resident, resp, persister, shutdown, fails, lastStored,
                   ident, lastSnapshot, outbox>>

\* get_user after the `get`: None for LoggingIn; for a LoggedIn entry past
\* expires_at `self.sessions.remove(session)`, which needs the write lock,
\* then None; else the user.  The guard is dropped on return.
GetUserRest(t) ==
    /\ auth.call[t].pc = "held"
    /\ LET s == auth.call[t].session[1]
           return(ret) == [pc |-> "done", session |-> Some(s), ret |-> ret]
       IN IF s \in auth.logging
          THEN /\ auth' = [auth EXCEPT !.readers = @ \ {t}, !.call[t] = return(None)]
               /\ UNCHANGED sessions
          ELSE IF s \in auth.expired
          THEN /\ auth.readers = {}
               /\ sessions' = [sessions EXCEPT ![s] = None]
               /\ auth' = [auth EXCEPT !.expired = @ \ {s}, !.readers = @ \ {t},
                                       !.call[t] = return(None)]
          ELSE /\ auth' = [auth EXCEPT !.readers = @ \ {t},
                                       !.call[t] = return(sessions[s])]
               /\ UNCHANGED sessions
    /\ UNCHANGED <<operations, text, meta, users, cursors, dirty, count, killed,
                   pc, cuser, rev, armed, woken, sock, rx, lagged, err, inflight,
                   csession, grx, nmsgs,
                   store, resident, resp, persister, shutdown, fails, lastStored,
                   ident, lastSnapshot, outbox>>

NextAuth ==
    \/ \E s \in SessionIds : Expire(s)
    \/ \E t \in Callers, s \in AuthCookies : GetUserGet(t, s)
    \/ \E t \in Callers : GetUserRest(t)

SpecAuth == Init /\ [][NextAuth]_vars

\* the call of thread t has found a LoggedIn entry past its expiry and waits
\* for the write lock while its own guard is out
WaitsForItself(t) ==
    /\ auth.call[t].pc = "held"
    /\ auth.call[t].session[1] \in SessionIds
    /\ auth.call[t].session[1] \in auth.expired
    /\ t \in auth.readers

\* C32: get_user always completes: no call is left waiting; for a LoggedIn
\* session past its expiry it returns None and the entry is removed, for an
\* unexpired LoggedIn session it returns the session's user, for an unknown
\* session or one still logging in it returns None.
GetUserCompletes ==
    /\ [](\A t \in Callers : ~WaitsForItself(t))
    /\ [][\A t \in Callers :
            (auth'.call[t] # auth.call[t] /\ auth'.call[t].pc = "done") =>
               LET s == auth'.call[t].session[1]
                   loggedIn == s \in SessionIds /\ sessions[s] # None
               IN IF loggedIn /\ s \in auth.expired
                  THEN auth'.call[t].ret = None /\ sessions'[s] = None
                  ELSE IF loggedIn
                  THEN auth'.call[t].ret = sessions[s]
                  ELSE auth'.call[t].ret = None]_vars

-----------------------------------------------------------------------------
(* SpecReject: SpecOT's Edits, good and bad, on an engine that holds cursors *)

RejectMsgs ==
    OtMsgs \cup {CursorData([cursors |-> <<0, 1>>, selections |-> <<<<0, 1>>>>])}

RecvReject(c) ==
    /\ nmsgs < MaxRejectMsgs
    /\ \E m \in RejectMsgs : RecvClient(c, m)

NextReject ==
    (\E c \in LoopConns :
        \/ Attach(c, None)
        \/ Turn(c)
        \/ SelectNotified(c)
        \/ RecvReject(c)
        \/ Close(c)) /\ UNCHANGED regVars

SpecReject == Init /\ [][NextReject]_vars

\* the errors of apply_edit
RejectReasons == {"revision", "transform", "too_large", "apply"}

\* C33: an Edit that is rejected (revision too new, transform failure,
\* oversized target, apply length mismatch) leaves the log, the text, the
\* cursors, the meta and the dirty flag as they were, and what a persist pass
\* would store is what it would have stored before.
RejectedEditLeavesNoTrace ==
    [][\A c \in Conns :
          (err[c] = "" /\ err'[c] \in RejectReasons) =>
             /\ UNCHANGED <<operations, text, cursors, meta, dirty>>
             /\ DirtySnapshot' = DirtySnapshot]_vars

\* an Edit of the wrong base length was rejected by apply on an engine that
\* holds an accepted Edit and a connection's cursors
RejectedEditLeavesNoTraceWitness ==
    \E c \in Conns :
        /\ err[c] = "apply"
        /\ DOMAIN cursors # {}
        /\ dirty
        /\ Len(operations) > 1

-----------------------------------------------------------------------------
(* The operation log under SpecConc: Edits of several connections wait in
   their sockets and are taken in any order *)

\* messages other than Edit
OtherMsgs ==
    {SetMeta(Some("rust"), Some(TRUE)),
     ClientInfo([name |-> "alice", hue |-> 7, admin |-> FALSE]),
     CursorData([cursors |-> <<0>>, selections |-> <<>>]),
     Invalid}

\* C34: the operation log is append-only: in every step the old log is a
\* prefix of the new one, so the revision never decreases; the log grows
\* only when a connection's Edit is accepted, by exactly one entry with that
\* connection's id, whatever the order in which concurrent Edits are taken;
\* no other message and no rejected Edit extends it.
LogIsAppendOnly ==
    /\ [](\A c \in Conns :
            /\ \A m \in OtherMsgs :
                  HandleMessage(State, c, m, cuser[c]).st.operations = operations
            /\ \A m \in ConcMsgs :
                  LET r == HandleMessage(State, c, m, cuser[c])
                  IN r.err # "" => r.st.operations = operations)
    /\ [][/\ Len(operations') >= Len(operations)
          /\ SubSeq(operations', 1, Len(operations)) = operations
          /\ operations' # operations =>
                /\ Len(operations') = Len(operations) + 1
                /\ \E c \in Conns :
                      /\ pc[c] = "select"
                      /\ inflight[c] # None /\ inflight[c][1].type = "Edit"
                      /\ inflight'[c] = None
                      /\ err'[c] = ""
                      /\ operations'[Len(operations')].id = c
       ]_vars

\* the log holds Edits of two connections, the later one sent at a revision
\* before the earlier one was accepted
LogIsAppendOnlyWitness ==
    \E i \in 1 .. Len(operations), j \in 1 .. Len(operations) :
        /\ i < j
        /\ operations[i].id \in Conns /\ operations[j].id \in Conns
        /\ operations[i].id # operations[j].id
        /\ rev[operations[j].id] < i

-----------------------------------------------------------------------------
(* A killed engine under SpecPersist *)

\* C35: killed is terminal: a killed engine is never un-killed (the registry
\* builds a new engine instead), and from the kill on its log, text and
\* meta no longer change: no Edit or SetMeta is admitted, one that was
\* pending on a connection at the kill included.
KilledIsTerminal ==
    [][killed =>
          \/ killed' /\ UNCHANGED <<operations, text, meta>>
          \/ ~resident /\ resident' /\ ~killed']_vars

\* connection c's task is running on the engine: on_connection has given it
\* an id and has not yet removed it
SocketOpen(c) == pc[c] \in {"initial", "top", "check", "select", "closing"}

\* C36: the persister never kills or evicts a document while a socket
\* connection to it is open, whether or not the connection has sent a
\* ClientInfo.
NoEvictionWhileConnected ==
    [][((~killed /\ killed') \/ (resident /\ ~resident')) =>
          \A c \in Conns : ~SocketOpen(c)]_vars

-----------------------------------------------------------------------------
(* SpecLww: the SetMeta arm of handle_message in its two parts, as the
   handlers of two connections run them on two worker threads: the part under
   the State's write lock, and the send on `update` after the lock is
   dropped *)

LwwMsgs == {SetMeta(Some("rust"), None), SetMeta(Some("go"), None)}

\* handle_message, SetMeta, from `self.state.write().await` to `drop(state)`:
\* the meta is written and the Meta to send is built from it
SetMetaLocked(c, msg) ==
    /\ pc[c] = "select"
    /\ nmsgs < MaxLwwMsgs
    /\ LET r == HandleMessage(State, c, msg, cuser[c])
       IN /\ SetState(r.st)
          /\ outbox' = [outbox EXCEPT ![c] = r.send]
          /\ woken' = IF r.notify THEN [NotifyWaiters EXCEPT ![c] = FALSE]
                      ELSE [woken EXCEPT ![c] = FALSE]
    /\ pc' = [pc EXCEPT ![c] = "sending"]
    /\ armed' = [armed EXCEPT ![c] = FALSE]
    /\ nmsgs' = nmsgs + 1
    /\ UNCHANGED <<rx, lagged>>
    /\ UNCHANGED <<killed, count, cuser, rev, sock, err, inflight,
                   sessions, csession, grx,
                   store, resident, resp, persister, shutdown, fails, lastStored,
                   ident, lastSnapshot, auth>>

\* handle_message, SetMeta: `self.update.send(ServerMsg::Meta {..})`, then
\* back to the top of the loop
SetMetaSend(c) ==
    /\ pc[c] = "sending"
    /\ rx' = Broadcast(rx, outbox[c])
    /\ lagged' = BroadcastLag(rx, outbox[c])
    /\ outbox' = [outbox EXCEPT ![c] = <<>>]
    /\ pc' = [pc EXCEPT ![c] = "top"]
    /\ UNCHANGED <<operations, text, meta, users, cursors, dirty, armed, woken,
                   nmsgs>>
    /\ UNCHANGED <<killed, count, cuser, rev, sock, err, inflight,
                   sessions, csession, grx,
                   store, resident, resp, persister, shutdown, fails, lastStored,
                   ident, lastSnapshot, auth>>

NextLww ==
    \E c \in LoopConns :
        \/ (Attach(c, None) \/ Turn(c) \/ SelectNotified(c) \/ SelectUpdate(c))
              /\ UNCHANGED regVars
        \/ \E m \in LwwMsgs : SetMetaLocked(c, m)
        \/ SetMetaSend(c)

SpecLww == Init /\ [][NextLww]_vars

\* the Meta messages connection c has received, in order
MetasOf(c) == SelectSeq(sock[c], LAMBDA m : m.type = "Meta")

\* no SetMeta is being handled and every broadcast has been delivered
Settled ==
    \A c \in Conns :
        /\ pc[c] # "sending"
        /\ outbox[c] = <<>>
        /\ rx[c] = <<>>

\* C37: metadata is last-writer-wins for all clients alike: once every
\* SetMeta has been handled and every broadcast delivered, the last Meta
\* each connected client has received is the engine's current meta, also
\* when the handlers of two connections run at the same time and send after
\* they have released the lock.
LastMetaIsCurrent ==
    Settled =>
       \A c \in Conns :
          (pc[c] \in {"top", "check", "select"} /\ ~lagged[c]) =>
             MetasOf(c)[Len(MetasOf(c))] = MsgMeta(meta)

-----------------------------------------------------------------------------
(* SpecSub: websocket_connection from the upgrade to its loop: the initial
   messages are taken from the engine and sent, then the connection
   subscribes; the other connections send SetMeta, ClientInfo and
   CursorData and leave in the meantime *)

\* websocket_connection up to the end of the `for message in messages`
\* loop: init_connection gives the id and the messages of the replay from
\* one reading of the State, and they are sent; no receiver exists yet
InitConnection(c, s) ==
    /\ pc[c] = "idle"
    /\ c = count
    /\ count < MaxConns
    /\ count' = count + 1
    /\ csession' = [csession EXCEPT ![c] = s]
    /\ cuser' = [cuser EXCEPT ![c] = GetUser(s)]
    /\ \E uo \in Orders(DOMAIN users), co \in Orders(DOMAIN cursors) :
          sock' = [sock EXCEPT ![c] = <<MsgIdentity(c, GetUser(s))>>
                                      \o InitialMessages(State, uo, co)]
    /\ rev' = [rev EXCEPT ![c] = Len(operations)]
    /\ pc' = [pc EXCEPT ![c] = "replayed"]
    /\ UNCHANGED <<rx, grx>>
    /\ UNCHANGED <<operations, text, meta, users, cursors, dirty, killed,
                   armed, woken, lagged, err, inflight, sessions, nmsgs>>

\* `state.update.subscribe()` and `rustpad.subscribe()`: the receivers are
\* created empty and see what is sent from now on
SubscribeAfterReplay(c) ==
    /\ pc[c] = "replayed"
    /\ rx' = [rx EXCEPT ![c] = <<>>]
    /\ grx' = [grx EXCEPT ![c] = <<>>]
    /\ pc' = [pc EXCEPT ![c] = "top"]
    /\ UNCHANGED <<count, csession, cuser, sock, rev>>
    /\ UNCHANGED <<operations, text, meta, users, cursors, dirty, killed,
                   armed, woken, lagged, err, inflight, sessions, nmsgs>>

\* the messages of SpecSub's clients
SubMsgs ==
    {SetMeta(Some("rust"), None),
     ClientInfo([name |-> "alice", hue |-> 7, admin |-> FALSE]),
     CursorData([cursors |-> <<0>>, selections |-> <<>>])}

RecvSub(c) ==
    /\ nmsgs < MaxSubMsgs
    /\ \E m \in SubMsgs : RecvClient(c, m)

NextSub ==
    (\E c \in LoopConns :
        \/ InitConnection(c, None)
        \/ SubscribeAfterReplay(c)
        \/ Turn(c)
        \/ SelectUpdate(c)
        \/ RecvSub(c)
        \/ ClientClose(c)
        \/ Close(c)) /\ UNCHANGED regVars

SpecSub == Init /\ [][NextSub]_vars

\* the last message of `seq` that satisfies Test, or None
LastOf(seq, Test(_)) ==
    LET hits == SelectSeq(seq, Test) IN
    IF hits = <<>> THEN None ELSE Some(hits[Len(hits)])

\* what the client of connection c knows from the messages it was sent
KnownMeta(c) == LastOf(sock[c], LAMBDA m : m.type = "Meta")
KnownUser(c, id) == LastOf(sock[c], LAMBDA m : m.type = "UserInfo" /\ m.id = id)
KnownCursor(c, id) == LastOf(sock[c], LAMBDA m : m.type = "UserCursor" /\ m.id = id)

\* connection c is in its loop, has not lagged and has been sent every
\* message its receiver got
UpToDate(c) ==
    /\ pc[c] \in {"top", "check", "select"}
    /\ ~lagged[c]
    /\ rx[c] = <<>>

\* C38: a connection misses no presence or metadata update: every Meta,
\* UserInfo, UserCursor or disconnect made to the engine after the reading
\* of the State for its initial replay reaches it through its receiver,
\* the changes made between that reading and the subscribe included; so a
\* connection that has been sent all its receiver got knows the engine's
\* meta, users and cursors.
NoUpdateMissed ==
    \A c \in Conns :
        UpToDate(c) =>
           /\ KnownMeta(c) = Some(MsgMeta(meta))
           /\ \A id \in DOMAIN users :
                 KnownUser(c, id) = Some(MsgUserInfo(id, Some(users[id])))
           /\ \A id \in Conns \ DOMAIN users :
                 KnownUser(c, id) \in {None, Some(MsgUserInfo(id, None))}
           /\ \A id \in DOMAIN cursors :
                 KnownCursor(c, id) = Some(MsgUserCursor(id, cursors[id]))

-----------------------------------------------------------------------------
(* Messages on a connection the visibility denies *)

\* this step takes a message from connection c's socket in the select!
TakesMessage(c) ==
    /\ pc[c] = "select"
    /\ pc'[c] # "select"
    /\ nmsgs' = nmsgs + 1

\* C39: from the moment the engine's visibility denies a connection's
\* role, no Edit, SetMeta, ClientInfo or CursorData of that connection is
\* admitted into the engine's state, also when the message is already on
\* the socket when the connection is woken by the change of visibility.
DeniedConnectionIsNotHeard ==
    [][
        \A c \in Conns :
            (Denied(c) /\ TakesMessage(c)) =>
                UNCHANGED <<operations, text, meta, users, cursors, dirty>>
    ]_vars

-----------------------------------------------------------------------------
(* LivePark: SpecPark under the runtime's scheduling: the persister task
   and the connection tasks run when they can *)

\* the persister task's steps, the end of its loop included
PersisterLoop ==
    \/ PersisterStep
    \/ PersisterEmptyCheck
    \/ PersisterPark

LivePark ==
    /\ SpecPark
    /\ WF_vars(PersisterLoop)
    /\ \A c \in LoopConns : WF_vars(TaskStep(c))

\* no connection to the document has just been opened: socket_handler
\* leaves every connection it lets through at "idle", where its task starts
NoNewConnection == \A c \in Conns : pc[c] # "idle"

\* the text text_handler reads: the engine's if the registry has the
\* document, the stored one otherwise, empty if there is none
ReadableText ==
    IF TextDocument = None THEN <<>> ELSE TextDocument[1].text

\* C40: idle eviction makes progress: a resident document with no users
\* and no unpersisted changes, to which no new connection is opened, is
\* eventually killed and removed from the registry by the persister (it
\* does not stay resident and idle for ever), and once removed its text is
\* still what text_handler reads from the store.
IdleDocumentIsEvicted ==
    /\ ~<>[](resident /\ Idle /\ NoNewConnection)
    /\ [][(resident /\ ~resident' /\ Saved) => (killed' /\ ReadableText' = text)]_vars

====
